---------------------------- MODULE Spec2Model ----------------------------
(***************************************************************************)
(* A model of the layout and pagination engine of pyzlides                 *)
(* (src/pyzlides/core.py).                                                  *)
(*                                                                         *)
(* Geometry.  Every length is an integer number of 1/20 point, so that the *)
(* half-point page height (445.5), the scaled font sizes (48 * 0.6 = 28.8, *)
(* 24 * 0.8 = 19.2) and the halved widths of the centring code are exact.  *)
(*                                                                         *)
(* Text.  A Python str is a sequence of one-character strings.  The canvas *)
(* capability stringWidth is the sum of the glyph advances (in 1/1000 em)  *)
(* times the font size; the glyph table Em is a stylised metric (quarter,  *)
(* half and full em), which keeps every width an exact integer.            *)
(*                                                                         *)
(* Arithmetic.  Python computes the scaled font sizes in binary floating   *)
(* point (48 * 0.6 is 28.799999999999997); the model uses the exact        *)
(* decimal value, which differs only where a product is an exact multiple  *)
(* of the content width.                                                   *)
(***************************************************************************)
EXTENDS Integers, Sequences, FiniteSets, TLC

VARIABLES
    \* wrap_text(canvas_obj, text, font_name, font_size, max_width)
    w_pc,        \* "call" | "loop" | "done"
    w_text,      \* the argument text
    w_maxw,      \* the argument max_width
    w_size,      \* the argument font_size
    w_todo,      \* the words of text.split(' ') the for loop has not visited yet
    w_cur,       \* current_line
    w_lines,     \* lines
    \* Slide.render_with_overflow_detection(self, canvas_obj, theme)
    p_pc,        \* "call" | "loop" | "done"
    p_elements,  \* self.elements, as references into ElemPool
    p_theme,     \* the argument theme
    p_todo,      \* the elements the for loop has not visited yet
    p_current_y, \* current_y
    p_slides,    \* slides
    p_current,   \* current_slide_elements
    p_next_id,   \* the identity the next constructed Slide object gets
    p_result,    \* the returned list of Slide objects
    \* element.render(canvas_obj, x, y, theme) of a root element
    r_pc,        \* "call" | "loop" | "done"
    r_root,      \* the element whose render method is called
    r_theme,     \* the argument theme
    r_x,         \* the argument x
    r_y,         \* the argument y
    r_width,     \* Center, TitleSlide: estimated_text_width
    r_child_x,   \* Center, TitleSlide: the x the child is rendered at
    r_todo,      \* CombinedElement: the children the for loop has not visited yet
    r_current_y, \* CombinedElement: current_y
    r_calls,     \* the render calls made on the children: [element, x, y, height]
    r_ops,       \* the canvas calls made, in order
    r_height,    \* the returned height
    \* PyzlidesPDF.generate(self, slides, theme)
    g_pc,        \* "call" | "loop" | "done"
    g_slides,    \* the argument slides: the logical Slide objects
    g_theme,     \* the argument theme
    g_todo,      \* the logical slides the outer for loop has not visited yet
    g_pages,     \* the overflow_slides the inner for loop has not visited yet
    g_counts,    \* per logical slide visited, the number of its physical slides
    g_total,     \* total_slides_rendered
    g_next_id,   \* the identity the next constructed Slide object gets
    g_canvas,    \* the calls made on self.canvas, in order
    \* one element on its way through generate: its height is estimated by
    \* render_with_overflow_detection, then Slide.render renders it
    e_pc,        \* "call" | "estimated" | "done"
    e_element,   \* the element
    e_theme,     \* the argument theme
    e_estimate,  \* what _estimate_element_height returned
    e_height,    \* what element.render returned
    e_ops,       \* the canvas calls element.render made, in order
    \* generate_pdf() of cli.py
    l_pc,        \* "call" | "loop" | "done"
    l_files,     \* slide_files, what config.get_slide_order() returned
    l_todo,      \* the entries the for loop has not visited yet
    l_slides,    \* slides
    l_next_id,   \* the identity the next constructed Slide object gets
    l_called,    \* whether pdf_generator.generate has been called
    l_handed,    \* the list of slides generate was called with
    \* the evaluation of an expression operand + operand + ..., left to right
    a_pc,        \* "call" | "eval" | "done" | "raised"
    a_operands,  \* the operands, in order
    a_todo,      \* the operands not added yet
    a_acc,       \* the value of the expression so far
    a_left,      \* the left operand of the last +
    a_right,     \* the right operand of the last +
    \* Code._wrap_code_line(self, canvas_obj, line, font_name, font_size, max_width)
    c_pc,        \* "call" | "loop" | "done"
    c_line,      \* the argument line
    c_size,      \* the argument font_size
    c_maxw,      \* the argument max_width
    c_leading,   \* leading_whitespace
    c_wrapped,   \* wrapped_lines, and at the end the returned list
    c_remaining  \* remaining_line

wvars == <<w_pc, w_text, w_maxw, w_size, w_todo, w_cur, w_lines>>

pvars == <<p_pc, p_elements, p_theme, p_todo, p_current_y, p_slides, p_current,
           p_next_id, p_result>>

rvars == <<r_pc, r_root, r_theme, r_x, r_y, r_width, r_child_x, r_todo, r_current_y,
           r_calls, r_ops, r_height>>

gvars == <<g_pc, g_slides, g_theme, g_todo, g_pages, g_counts, g_total, g_next_id,
           g_canvas>>

evars == <<e_pc, e_element, e_theme, e_estimate, e_height, e_ops>>

lvars == <<l_pc, l_files, l_todo, l_slides, l_next_id, l_called, l_handed>>

avars == <<a_pc, a_operands, a_todo, a_acc, a_left, a_right>>

cvars == <<c_pc, c_line, c_size, c_maxw, c_leading, c_wrapped, c_remaining>>

vars == <<wvars, pvars, rvars, gvars, evars, lvars, avars, cvars>>

\* what the steps of one method leave alone: the variables of the others
not_w == <<pvars, rvars, gvars, evars, lvars, avars, cvars>>

not_p == <<wvars, rvars, gvars, evars, lvars, avars, cvars>>

not_r == <<wvars, pvars, gvars, evars, lvars, avars, cvars>>

not_g == <<wvars, pvars, rvars, evars, lvars, avars, cvars>>

not_e == <<wvars, pvars, rvars, gvars, lvars, avars, cvars>>

not_l == <<wvars, pvars, rvars, gvars, evars, avars, cvars>>

not_a == <<wvars, pvars, rvars, gvars, evars, lvars, cvars>>

not_c == <<wvars, pvars, rvars, gvars, evars, lvars, avars>>

-----------------------------------------------------------------------------
(* Units and page geometry                                                 *)

Pt(n) == n * 20

Half(n) == n \div 2

Max(a, b) == IF a >= b THEN a ELSE b

Min(a, b) == IF a <= b THEN a ELSE b

SLIDE_W == Pt(792)

SLIDE_H == 8910          \* 445.5 points

DEFAULT_MARGIN_LEFT == Pt(50)

DEFAULT_MARGIN_RIGHT == Pt(50)

DEFAULT_MARGIN_TOP == Pt(50)

DEFAULT_MARGIN_BOTTOM == Pt(50)

get_available_width == SLIDE_W - DEFAULT_MARGIN_LEFT - DEFAULT_MARGIN_RIGHT

-----------------------------------------------------------------------------
(* Strings                                                                 *)

Rep(c, n) == [i \in 1..n |-> c]

RECURSIVE Join(_)
\* " ".join(ws): the words separated by single spaces
Join(ws) ==
    IF ws = <<>> THEN <<>>
    ELSE IF Len(ws) = 1 THEN ws[1]
    ELSE ws[1] \o <<" ">> \o Join(Tail(ws))

\* the indices of the spaces of t
SpaceAt(t) == {i \in 1..Len(t) : t[i] = " "}

\* the index of the k-th space of t; 0 for k = 0 and Len(t) + 1 past the last
NthSpace(t, k) ==
    IF k = 0 THEN 0
    ELSE IF k > Cardinality(SpaceAt(t)) THEN Len(t) + 1
    ELSE CHOOSE p \in SpaceAt(t) : Cardinality({q \in SpaceAt(t) : q <= p}) = k

\* text.split(' '): one more piece than there are spaces, each piece the
\* characters between two neighbouring spaces; "" gives [""]
SplitSpace(t) ==
    [k \in 1..(Cardinality(SpaceAt(t)) + 1) |->
        SubSeq(t, NthSpace(t, k - 1) + 1, NthSpace(t, k) - 1)]

\* glyph advance in 1/1000 em
Em(c) == CASE c = " " -> 250
           [] c = "a" -> 500
           [] OTHER   -> 1000

Count(t, c) == Cardinality({i \in 1..Len(t) : t[i] = c})

\* the sum of the glyph advances of t
EmSum(t) ==
    Em(" ") * Count(t, " ") + Em("a") * Count(t, "a")
        + Em("W") * (Len(t) - Count(t, " ") - Count(t, "a"))

\* canvas_obj.stringWidth(text, font_name, font_size); every glyph of the
\* monospace font Courier is 600/1000 em wide
stringWidth(t, font_name, font_size) ==
    IF font_name = "Courier" THEN (Len(t) * 600 * font_size) \div 1000
    ELSE (EmSum(t) * font_size) \div 1000

\* the characters str.strip, str.lstrip and str.rstrip remove
Whitespace == {" ", "\t", "\n"}

\* not t.strip()
IsBlank(t) == \A i \in 1..Len(t) : t[i] \in Whitespace

NotBlank(t) == ~IsBlank(t)

\* the number of whitespace characters t starts with
LeadingBlanks(t) ==
    Cardinality({k \in 1..Len(t) : \A j \in 1..k : t[j] \in Whitespace})

\* the number of whitespace characters t ends with
TrailingBlanks(t) ==
    Cardinality({k \in 1..Len(t) : \A j \in k..Len(t) : t[j] \in Whitespace})

\* t.lstrip()
lstrip(t) == SubSeq(t, LeadingBlanks(t) + 1, Len(t))

\* t.strip()
strip(t) == IF IsBlank(t) THEN <<>>
            ELSE SubSeq(t, LeadingBlanks(t) + 1, Len(t) - TrailingBlanks(t))

\* the indices of the newlines of t
NewlineAt(t) == {i \in 1..Len(t) : t[i] = "\n"}

\* the index of the k-th newline of t; 0 for k = 0 and Len(t) + 1 past the last
NthNewline(t, k) ==
    IF k = 0 THEN 0
    ELSE IF k > Cardinality(NewlineAt(t)) THEN Len(t) + 1
    ELSE CHOOSE p \in NewlineAt(t) : Cardinality({q \in NewlineAt(t) : q <= p}) = k

\* text.split('\n'): one more piece than there are newlines; "" gives [""]
SplitLines(t) ==
    [k \in 1..(Cardinality(NewlineAt(t)) + 1) |->
        SubSeq(t, NthNewline(t, k - 1) + 1, NthNewline(t, k) - 1)]

\* str.isdigit, str.isalpha and str.isalnum on the characters of the inputs
Digits == {"0", "1", "2", "3", "4", "5", "6", "7", "8", "9"}

Letters ==
    {"a", "b", "c", "d", "e", "f", "g", "h", "i", "j", "k", "l", "m", "n", "o", "p",
     "q", "r", "s", "t", "u", "v", "w", "x", "y", "z", "A", "B", "C", "D", "E", "F",
     "G", "H", "I", "J", "K", "L", "M", "N", "O", "P", "Q", "R", "S", "T", "U", "V",
     "W", "X", "Y", "Z"}

-----------------------------------------------------------------------------
(* wrap_text                                                               *)

\* a faulty variant of wrap_step: the word that does not fit is joined to the
\* line instead of starting a new one
wrap_step_joined(st, word, font_name, font_size, max_width) ==
    LET test_line == st.cur \o (IF st.cur # <<>> THEN <<" ">> ELSE <<>>) \o word
    IN  IF stringWidth(test_line, font_name, font_size) <= max_width
        THEN [cur |-> test_line, lines |-> st.lines]
        ELSE IF st.cur # <<>>
             THEN [cur |-> test_line, lines |-> st.lines]
             ELSE [cur |-> <<>>, lines |-> Append(st.lines, word)]

\* the body of the for loop of wrap_text: st = [cur: current_line, lines]
wrap_step(st, word, font_name, font_size, max_width) ==
    LET test_line == st.cur \o (IF st.cur # <<>> THEN <<" ">> ELSE <<>>) \o word
    IN  IF stringWidth(test_line, font_name, font_size) <= max_width
        THEN [cur |-> test_line, lines |-> st.lines]
        ELSE IF st.cur # <<>>
             THEN [cur |-> word, lines |-> Append(st.lines, st.cur)]
             ELSE [cur |-> <<>>, lines |-> Append(st.lines, word)]

\* "Add the last line if it's not empty" and return
wrap_finish(st) == IF st.cur # <<>> THEN Append(st.lines, st.cur) ELSE st.lines

RECURSIVE wrap_loop(_, _, _, _, _)
wrap_loop(st, words, font_name, font_size, max_width) ==
    IF words = <<>> THEN st
    ELSE wrap_loop(wrap_step(st, Head(words), font_name, font_size, max_width),
                   Tail(words), font_name, font_size, max_width)

\* wrap_text as its callers use it: the list of lines
wrap_text(t, font_name, font_size, max_width) ==
    wrap_finish(wrap_loop([cur |-> <<>>, lines |-> <<>>], SplitSpace(t),
                          font_name, font_size, max_width))

-----------------------------------------------------------------------------
(* Elements and themes                                                     *)

TextKinds == {"Head1", "Head2", "Head3", "BodyText", "Bold"}

\* the constructors of the element classes
TextElement(kind, text) == [kind |-> kind, text |-> text, color |-> "None"]

Img(path, caption) == [kind |-> "Img", path |-> path, caption |-> caption]

BackgroundImage(path) == [kind |-> "BackgroundImage", path |-> path]

Center(element) == [kind |-> "Center", element |-> element]

Bottom(element) == [kind |-> "Bottom", element |-> element]

TitleSlide(element) == [kind |-> "TitleSlide", element |-> element]

GridLayout(elements, columns) ==
    [kind |-> "GridLayout", elements |-> elements, columns |-> columns]

CombinedElement(elements) == [kind |-> "CombinedElement", elements |-> elements]

\* Config.get_default_config()['theme'], the sizes in points
DefaultTheme == [font_size |-> 24, header_font_size |-> 48]

\* a theme of a config.yaml with larger type
LargeTheme == [font_size |-> 36, header_font_size |-> 72]

Themes == {DefaultTheme, LargeTheme}

\* the font size each text class takes from the theme (1/20 point):
\* header_font_size times 1, 0.75, 0.6; font_size times 1
FontSize(kind, theme) ==
    CASE kind = "Head1" -> theme.header_font_size * 20
      [] kind = "Head2" -> theme.header_font_size * 15
      [] kind = "Head3" -> theme.header_font_size * 12
      [] OTHER          -> theme.font_size * 20

\* the line spacing each text class adds to the font size
LineGap(kind) ==
    CASE kind = "Head1" -> Pt(5)
      [] kind = "Head2" -> Pt(4)
      [] kind = "Head3" -> Pt(3)
      [] OTHER          -> Pt(2)

\* "Extra spacing after element"
TrailingGap(kind) ==
    CASE kind = "Head1" -> Pt(5)
      [] kind = "Head2" -> Pt(4)
      [] OTHER          -> Pt(3)

FontName(kind) == IF kind = "BodyText" THEN "Helvetica" ELSE "Helvetica-Bold"

-----------------------------------------------------------------------------
(* Code                                                                    *)

\* Code(code, language): background_color keeps its default
Code(code, language) ==
    [kind |-> "Code", code |-> code, language |-> language,
     background_color |-> "#F5F5F5"]

\* the names pygments.lexers.get_lexer_by_name finds a lexer for; any other
\* name raises ClassNotFound
PygmentsLanguages == {"python", "javascript", "java", "ruby"}

\* Code._apply_basic_highlighting (lines 424-428)
_apply_basic_highlighting(code, language) == code

\* lines 300-309; "None" stands for language = None
highlighted_code(element) ==
    IF element.language # "None"
    THEN IF element.language \in PygmentsLanguages
         THEN _apply_basic_highlighting(element.code, element.language)
         ELSE element.code
    ELSE element.code

RECURSIVE pop_leading(_)
\* while code_lines and not code_lines[0].strip(): code_lines.pop(0)
pop_leading(code_lines) ==
    IF code_lines # <<>> /\ IsBlank(Head(code_lines))
    THEN pop_leading(Tail(code_lines))
    ELSE code_lines

RECURSIVE pop_trailing(_)
\* while code_lines and not code_lines[-1].strip(): code_lines.pop()
pop_trailing(code_lines) ==
    IF code_lines # <<>> /\ IsBlank(code_lines[Len(code_lines)])
    THEN pop_trailing(SubSeq(code_lines, 1, Len(code_lines) - 1))
    ELSE code_lines

\* a faulty variant of trim_blank_lines: the blank lines between two lines of
\* code are dropped too
trim_blank_lines_all(code_lines) == SelectSeq(code_lines, NotBlank)

\* lines 314-318
trim_blank_lines(code_lines) == pop_trailing(pop_leading(code_lines))

\* the characters _wrap_code_line prefers to break after
BreakChars == {" ", "\t", ",", ";", "(", ")", "[", "]", "{", "}"}

\* lines 356-361: the spaces and tabs the line starts with
leading_whitespace(line) ==
    SubSeq(line, 1,
           Cardinality({k \in 1..Len(line) : \A j \in 1..k : line[j] \in {" ", "\t"}}))

\* lines 392-397: the number of characters of remaining_content the for loop
\* appends to current_line, the value of i when it leaves the loop
fitted(indent, remaining_content, font_name, font_size, max_width) ==
    Cardinality({k \in 1..Len(remaining_content) :
        stringWidth(indent \o SubSeq(remaining_content, 1, k), font_name, font_size)
            <= max_width})

\* lines 404-408: the search backwards from i, over at most 20 characters, for
\* a character to break after; remaining_content[j] of the code is the
\* character at j + 1 here
break_point(remaining_content, i) ==
    LET found == {j \in (Max(0, i - 20) + 1)..i :
                     remaining_content[j + 1] \in BreakChars}
    IN  IF found = {} THEN i
        ELSE (CHOOSE j \in found : \A k \in found : k <= j) + 1

\* lines 376-420: one iteration of the while loop, from its top; break tells
\* whether the iteration leaves the loop
wrap_code_step(wrapped_lines, remaining_line, leading, font_name, font_size, max_width) ==
    LET indent == IF wrapped_lines # <<>> THEN leading \o <<" ", " ", " ", " ">>
                  ELSE leading
        remaining_content ==
            IF wrapped_lines # <<>> THEN lstrip(remaining_line)
            ELSE SubSeq(remaining_line, Len(leading) + 1, Len(remaining_line))
        i == fitted(indent, remaining_content, font_name, font_size, max_width)
    IN  IF i = Len(remaining_content)
        THEN [wrapped_lines |-> Append(wrapped_lines, indent \o remaining_content),
              remaining_line |-> remaining_line,
              break |-> TRUE]
        ELSE LET bp == break_point(remaining_content, i)
                 \* current_line[:len(indent) + break_point]
                 segment == indent \o SubSeq(remaining_content, 1, Min(bp, i))
                 rest == lstrip(SubSeq(remaining_content, bp + 1,
                                       Len(remaining_content)))
             IN  [wrapped_lines |-> Append(wrapped_lines, segment),
                  remaining_line |-> rest,
                  break |-> rest = <<>>]

RECURSIVE wrap_code_loop(_, _, _, _, _, _)
\* lines 376-420: the while loop, from the top of one iteration
wrap_code_loop(wrapped_lines, remaining_line, leading, font_name, font_size, max_width) ==
    LET step == wrap_code_step(wrapped_lines, remaining_line, leading, font_name,
                               font_size, max_width)
    IN  IF step.break THEN step.wrapped_lines
        ELSE wrap_code_loop(step.wrapped_lines, step.remaining_line, leading,
                            font_name, font_size, max_width)

\* Code._wrap_code_line (lines 353-422)
_wrap_code_line(line, font_name, font_size, max_width) ==
    IF IsBlank(line) THEN <<line>>
    ELSE IF stringWidth(line, font_name, font_size) <= max_width THEN <<line>>
    ELSE wrap_code_loop(<<>>, line, leading_whitespace(line), font_name, font_size,
                        max_width)

python_keywords ==
    {<<"d", "e", "f">>, <<"c", "l", "a", "s", "s">>, <<"i", "f">>,
     <<"e", "l", "s", "e">>, <<"e", "l", "i", "f">>, <<"f", "o", "r">>,
     <<"w", "h", "i", "l", "e">>, <<"i", "m", "p", "o", "r", "t">>,
     <<"f", "r", "o", "m">>, <<"r", "e", "t", "u", "r", "n">>, <<"t", "r", "y">>,
     <<"e", "x", "c", "e", "p", "t">>, <<"f", "i", "n", "a", "l", "l", "y">>,
     <<"w", "i", "t", "h">>, <<"a", "s">>, <<"a", "n", "d">>, <<"o", "r">>,
     <<"n", "o", "t">>, <<"i", "n">>, <<"i", "s">>, <<"l", "a", "m", "b", "d", "a">>,
     <<"y", "i", "e", "l", "d">>, <<"g", "l", "o", "b", "a", "l">>,
     <<"n", "o", "n", "l", "o", "c", "a", "l">>, <<"T", "r", "u", "e">>,
     <<"F", "a", "l", "s", "e">>, <<"N", "o", "n", "e">>}

javascript_keywords ==
    {<<"f", "u", "n", "c", "t", "i", "o", "n">>, <<"v", "a", "r">>, <<"l", "e", "t">>,
     <<"c", "o", "n", "s", "t">>, <<"i", "f">>, <<"e", "l", "s", "e">>,
     <<"f", "o", "r">>, <<"w", "h", "i", "l", "e">>, <<"d", "o">>,
     <<"s", "w", "i", "t", "c", "h">>, <<"c", "a", "s", "e">>,
     <<"d", "e", "f", "a", "u", "l", "t">>, <<"b", "r", "e", "a", "k">>,
     <<"c", "o", "n", "t", "i", "n", "u", "e">>, <<"r", "e", "t", "u", "r", "n">>,
     <<"t", "r", "y">>, <<"c", "a", "t", "c", "h">>,
     <<"f", "i", "n", "a", "l", "l", "y">>, <<"t", "h", "r", "o", "w">>,
     <<"n", "e", "w">>, <<"t", "h", "i", "s">>, <<"t", "y", "p", "e", "o", "f">>,
     <<"i", "n", "s", "t", "a", "n", "c", "e", "o", "f">>, <<"t", "r", "u", "e">>,
     <<"f", "a", "l", "s", "e">>, <<"n", "u", "l", "l">>,
     <<"u", "n", "d", "e", "f", "i", "n", "e", "d">>}

java_keywords ==
    {<<"p", "u", "b", "l", "i", "c">>, <<"p", "r", "i", "v", "a", "t", "e">>,
     <<"p", "r", "o", "t", "e", "c", "t", "e", "d">>, <<"s", "t", "a", "t", "i", "c">>,
     <<"f", "i", "n", "a", "l">>, <<"c", "l", "a", "s", "s">>,
     <<"i", "n", "t", "e", "r", "f", "a", "c", "e">>,
     <<"e", "x", "t", "e", "n", "d", "s">>,
     <<"i", "m", "p", "l", "e", "m", "e", "n", "t", "s">>, <<"i", "f">>,
     <<"e", "l", "s", "e">>, <<"f", "o", "r">>, <<"w", "h", "i", "l", "e">>,
     <<"d", "o">>, <<"s", "w", "i", "t", "c", "h">>, <<"c", "a", "s", "e">>,
     <<"d", "e", "f", "a", "u", "l", "t">>, <<"b", "r", "e", "a", "k">>,
     <<"c", "o", "n", "t", "i", "n", "u", "e">>, <<"r", "e", "t", "u", "r", "n">>,
     <<"t", "r", "y">>, <<"c", "a", "t", "c", "h">>,
     <<"f", "i", "n", "a", "l", "l", "y">>, <<"t", "h", "r", "o", "w">>,
     <<"t", "h", "r", "o", "w", "s">>, <<"n", "e", "w">>, <<"t", "h", "i", "s">>,
     <<"s", "u", "p", "e", "r">>, <<"t", "r", "u", "e">>, <<"f", "a", "l", "s", "e">>,
     <<"n", "u", "l", "l">>}

\* keywords.get(self.language, [])
language_keywords(language) ==
    CASE language = "python"     -> python_keywords
      [] language = "javascript" -> javascript_keywords
      [] language = "java"       -> java_keywords
      [] OTHER                   -> {}

RECURSIVE string_scan(_, _, _)
\* lines 461-465: the index the inner while loop stops at
string_scan(line, i, quote_char) ==
    IF i <= Len(line) /\ line[i] # quote_char
    THEN IF line[i] = "\\" /\ i < Len(line)
         THEN string_scan(line, i + 2, quote_char)
         ELSE string_scan(line, i + 1, quote_char)
    ELSE i

\* lines 457-467: the index after the string that starts at string_start
string_end(line, string_start) ==
    LET i == string_scan(line, string_start + 1, line[string_start])
    IN  IF i <= Len(line) THEN i + 1 ELSE i

\* lines 477-479 and 489-491: the index after the run of characters of chars
\* that starts at start
run_end(line, start, chars) ==
    start + Cardinality({k \in start..Len(line) : \A j \in start..k : line[j] \in chars})

\* canvas_obj.setFillColor(HexColor(colors[color])); canvas_obj.drawString(x, y, text)
draw_colored(x, y, text, color) ==
    [op |-> "drawString", x |-> x, y |-> y, text |-> text, color |-> color]

RECURSIVE highlight_loop(_, _, _, _, _, _, _)
\* lines 444-518: the while loop, from index i with the pen at current_x
highlight_loop(line, i, current_x, y, font_name, font_size, language) ==
    IF i > Len(line) THEN <<>>
    ELSE LET char == line[i]
             \* a token line[i:end]: drawn, and the scan goes on after it
             token(end, color) ==
                 <<draw_colored(current_x, y, SubSeq(line, i, end - 1), color)>>
                     \o highlight_loop(line, end,
                            current_x + stringWidth(SubSeq(line, i, end - 1),
                                                    font_name, font_size),
                            y, font_name, font_size, language)
         IN  IF char = "#" \/ (char = "/" /\ i < Len(line) /\ line[i + 1] = "/")
             THEN <<draw_colored(current_x, y, SubSeq(line, i, Len(line)), "comment")>>
             ELSE IF char \in {"\"", "'"}
             THEN token(string_end(line, i), "string")
             ELSE IF char \in Digits
             THEN token(run_end(line, i, Digits \cup {"."}), "number")
             ELSE IF char \in Letters \cup {"_"}
             THEN LET end == run_end(line, i, Letters \cup Digits \cup {"_"})
                  IN  token(end, IF SubSeq(line, i, end - 1) \in language_keywords(language)
                                 THEN "keyword" ELSE "default")
             ELSE token(i + 1, "default")

\* Code._render_highlighted_line (lines 430-518): the drawString calls, each
\* with the colour set before it
_render_highlighted_line(line, x, y, font_name, font_size, language) ==
    highlight_loop(line, 1, x, y, font_name, font_size, language)

RECURSIVE drawn_lines(_, _, _, _)
\* lines 336-349: the lines drawn, a line too wide replaced by its segments
drawn_lines(code_lines, font_name, font_size, max_width) ==
    IF code_lines = <<>> THEN <<>>
    ELSE (IF stringWidth(Head(code_lines), font_name, font_size) <= max_width
          THEN <<Head(code_lines)>>
          ELSE _wrap_code_line(Head(code_lines), font_name, font_size, max_width))
         \o drawn_lines(Tail(code_lines), font_name, font_size, max_width)

RECURSIVE code_ops(_, _, _, _, _, _, _)
\* the canvas calls of the lines drawn, the first at current_y
code_ops(lines, x, current_y, line_height, font_name, font_size, language) ==
    IF lines = <<>> THEN <<>>
    ELSE _render_highlighted_line(Head(lines), x, current_y, font_name, font_size,
                                  language)
         \o code_ops(Tail(lines), x, current_y - line_height, line_height, font_name,
                     font_size, language)

\* Code.render (lines 292-351); font_size is theme font_size times 0.8
render_code(element, x, y, theme) ==
    LET font_name == "Courier"
        font_size == theme.font_size * 16
        max_width == get_available_width - Pt(20)
        code_lines == trim_blank_lines(SplitLines(highlighted_code(element)))
        line_height == font_size + Pt(2)
        padding == Pt(10)
        total_content_height == Len(code_lines) * line_height + 2 * padding
    IN  [height |-> total_content_height + Pt(10),
         ops |-> <<[op |-> "rect", x |-> x - Pt(10),
                    y |-> y - total_content_height + padding,
                    w |-> max_width + Pt(20), h |-> total_content_height]>>
                 \o code_ops(drawn_lines(code_lines, font_name, font_size, max_width),
                             x, y - padding, line_height, font_name, font_size,
                             element.language)]

-----------------------------------------------------------------------------
(* Slide._estimate_element_height                                          *)

RECURSIVE SumSeq(_)
SumSeq(hs) == IF hs = <<>> THEN 0 ELSE Head(hs) + SumSeq(Tail(hs))

RECURSIVE MaxSeq(_)
\* max_height = 0; for h in hs: max_height = max(max_height, h)
MaxSeq(hs) == IF hs = <<>> THEN 0 ELSE Max(Head(hs), MaxSeq(Tail(hs)))

\* estimated_lines = max(1, len(element.text) * font_size // max_width + 1)
estimated_lines(text, font_size) ==
    Max(1, ((Len(text) * font_size) \div get_available_width) + 1)

\* elements[:columns] for columns >= 0
Take(elements, n) == SubSeq(elements, 1, Min(n, Len(elements)))

RECURSIVE _estimate_element_height(_, _)
_estimate_element_height(element, theme) ==
    CASE element.kind \in TextKinds ->
            estimated_lines(element.text, FontSize(element.kind, theme))
                * (FontSize(element.kind, theme) + LineGap(element.kind))
                + TrailingGap(element.kind)
      [] element.kind = "Code" ->
            \* len(element.code.strip().split('\n')) * line_height + 2 * padding + 10
            Len(SplitLines(strip(element.code))) * (theme.font_size * 16 + Pt(2))
                + 2 * Pt(10) + Pt(10)
      [] element.kind = "Img" -> Pt(350)
      [] element.kind \in {"Center", "Bottom", "TitleSlide"} ->
            _estimate_element_height(element.element, theme)
      [] element.kind = "GridLayout" ->
            MaxSeq([i \in 1..Len(Take(element.elements, element.columns)) |->
                       _estimate_element_height(element.elements[i], theme)])
      [] element.kind = "BackgroundImage" -> 0
      [] element.kind = "CombinedElement" ->
            SumSeq([i \in 1..Len(element.elements) |->
                       _estimate_element_height(element.elements[i], theme)])
      [] OTHER -> Pt(50)

-----------------------------------------------------------------------------
(* Slide.render_with_overflow_detection                                    *)

MaxElems == 4

\* 500 characters in words of five letters
LongText == [i \in 1..500 |-> IF i % 6 = 0 THEN " " ELSE "a"]

\* the element objects slides are made of; a slide holds references (indices)
ElemPool == <<
    BackgroundImage("bg.png"),
    TextElement("BodyText", <<"a">>),
    TextElement("Head1", <<"a", " ", "a">>),
    TextElement("BodyText", SubSeq(LongText, 1, 209)),
    Img("photo.png", <<>>),
    TextElement("BodyText", LongText),
    CombinedElement(<<Img("a.png", <<>>), Center(TextElement("Head2", <<"a">>))>>)
>>

ElemIds == 1..Len(ElemPool)

\* 5000 characters of lorem-ipsum-style text
Lorem == [i \in 1..5000 |-> IF i % 6 = 0 THEN " " ELSE "a"]

\* the elements of the end-to-end scenario, referred to after those of ElemPool
ScenarioPool == <<
    TextElement("Head1", <<"T", "i", "t", "l", "e">>),
    TextElement("BodyText", Lorem),
    BackgroundImage("bg.png"),
    TextElement("BodyText", <<"c", "a", "p", "t", "i", "o", "n">>)
>>

AllElems == ElemPool \o ScenarioPool

RECURSIVE IdSeqs(_)
\* the sequences of at most n element references
IdSeqs(n) ==
    IF n = 0 THEN {<<>>}
    ELSE LET shorter == IdSeqs(n - 1)
         IN  shorter \cup {Append(es, e) : es \in {s \in shorter : Len(s) = n - 1},
                                           e \in ElemIds}

\* the estimated height of the element a reference stands for
Estimate(e, theme) == _estimate_element_height(AllElems[e], theme)

\* Slide(elements): a Slide object with its identity
Slide(id, elements) == [id |-> id, elements |-> elements]

\* the identity of the Slide the method is called on
SelfId == 0

\* current_y = page_height - DEFAULT_MARGIN_TOP; slides = []; current_slide_elements = []
overflow_start(next_id) ==
    [current_y |-> SLIDE_H - DEFAULT_MARGIN_TOP, slides |-> <<>>, current |-> <<>>,
     next_id |-> next_id]

\* a faulty variant of overflow_step: the element that starts a new slide is
\* not put into the new buffer
overflow_step_lost(st, e, theme) ==
    LET estimated_height == Estimate(e, theme)
    IN  IF st.current_y - estimated_height - Pt(10) < DEFAULT_MARGIN_BOTTOM
           /\ st.current # <<>>
        THEN [current_y |-> SLIDE_H - DEFAULT_MARGIN_TOP - estimated_height - Pt(10),
              slides |-> Append(st.slides, Slide(st.next_id, st.current)),
              current |-> <<>>,
              next_id |-> st.next_id + 1]
        ELSE [current_y |-> st.current_y - (estimated_height + Pt(10)),
              slides |-> st.slides,
              current |-> Append(st.current, e),
              next_id |-> st.next_id]

\* a faulty variant of overflow_step: the fit test compares with the top of
\* the content area instead of the bottom margin
overflow_step_top(st, e, theme) ==
    LET estimated_height == Estimate(e, theme)
    IN  IF st.current_y - estimated_height - Pt(10) < SLIDE_H - DEFAULT_MARGIN_TOP
           /\ st.current # <<>>
        THEN [current_y |-> SLIDE_H - DEFAULT_MARGIN_TOP - estimated_height - Pt(10),
              slides |-> Append(st.slides, Slide(st.next_id, st.current)),
              current |-> <<e>>,
              next_id |-> st.next_id + 1]
        ELSE [current_y |-> st.current_y - (estimated_height + Pt(10)),
              slides |-> st.slides,
              current |-> Append(st.current, e),
              next_id |-> st.next_id]

\* a faulty variant of overflow_step: after a split current_y restarts at the
\* top, without the height of the element that opened the new slide
overflow_step_reset(st, e, theme) ==
    LET estimated_height == Estimate(e, theme)
    IN  IF st.current_y - estimated_height - Pt(10) < DEFAULT_MARGIN_BOTTOM
           /\ st.current # <<>>
        THEN [current_y |-> SLIDE_H - DEFAULT_MARGIN_TOP,
              slides |-> Append(st.slides, Slide(st.next_id, st.current)),
              current |-> <<e>>,
              next_id |-> st.next_id + 1]
        ELSE [current_y |-> st.current_y - (estimated_height + Pt(10)),
              slides |-> st.slides,
              current |-> Append(st.current, e),
              next_id |-> st.next_id]

\* lines 798-811, the body of the for loop; e is the element visited
overflow_step(st, e, theme) ==
    LET estimated_height == Estimate(e, theme)
    IN  IF st.current_y - estimated_height - Pt(10) < DEFAULT_MARGIN_BOTTOM
           /\ st.current # <<>>
        THEN [current_y |-> SLIDE_H - DEFAULT_MARGIN_TOP - estimated_height - Pt(10),
              slides |-> Append(st.slides, Slide(st.next_id, st.current)),
              current |-> <<e>>,
              next_id |-> st.next_id + 1]
        ELSE [current_y |-> st.current_y - (estimated_height + Pt(10)),
              slides |-> st.slides,
              current |-> Append(st.current, e),
              next_id |-> st.next_id]

\* lines 813-821: flush the last buffer; "If no slides were created ... return self"
overflow_finish(st, self) ==
    LET slides == IF st.current # <<>>
                  THEN Append(st.slides, Slide(st.next_id, st.current))
                  ELSE st.slides
    IN  IF slides = <<>> THEN <<self>> ELSE slides

RECURSIVE overflow_loop(_, _, _)
overflow_loop(st, elements, theme) ==
    IF elements = <<>> THEN st
    ELSE overflow_loop(overflow_step(st, Head(elements), theme), Tail(elements), theme)

\* the whole method, as PyzlidesPDF.generate calls it
render_with_overflow_detection(self, theme, next_id) ==
    overflow_finish(overflow_loop(overflow_start(next_id), self.elements, theme), self)

-----------------------------------------------------------------------------
(* The render methods.  A render is [height, ops]: the height returned and  *)
(* the drawing calls made on the canvas, in order (setFont and setFillColor *)
(* calls are not recorded).                                                 *)

\* what os.path.exists and ImageReader find at a path
FileState(path) ==
    CASE path = "missing.png" -> "missing"
      [] path = "broken.png"  -> "broken"
      [] OTHER                -> "image"

\* img.getSize() in pixels
ImageSize(path) == IF path = "wide.png" THEN <<1600, 600>> ELSE <<400, 200>>

\* Head1.render ... Bold.render (lines 110-129, 145-164, 180-199, 215-234, 250-269)
render_text(element, x, y, theme) ==
    LET font_size == FontSize(element.kind, theme)
        step == font_size + LineGap(element.kind)
        lines == wrap_text(element.text, FontName(element.kind), font_size,
                           get_available_width)
    IN  [height |-> Len(lines) * step + TrailingGap(element.kind),
         ops |-> [i \in 1..Len(lines) |->
                    [op |-> "drawString", x |-> x, y |-> y - (i - 1) * step,
                     text |-> lines[i]]]]

\* a faulty variant of render_img: for a path with no file the caption is left
\* out and the height is 30 whether or not there is a caption
render_img_flat(element, x, y, theme) ==
    LET state == FileState(element.path)
        w == ImageSize(element.path)[1]
        h == ImageSize(element.path)[2]
        scaled == IF w <= 400 /\ h <= 300 THEN <<Pt(w), Pt(h)>>
                  ELSE IF 400 * h <= 300 * w THEN <<Pt(400), (Pt(400) * h) \div w>>
                  ELSE <<(Pt(300) * w) \div h, Pt(300)>>
    IN  CASE state = "image" ->
                [height |-> scaled[2] + (IF element.caption # <<>> THEN Pt(30) ELSE 0),
                 ops |-> <<[op |-> "drawImage", x |-> x, y |-> y - scaled[2],
                            w |-> scaled[1], h |-> scaled[2]]>>
                         \o (IF element.caption # <<>>
                             THEN <<[op |-> "drawString", x |-> x,
                                     y |-> y - scaled[2] - Pt(25),
                                     text |-> element.caption]>>
                             ELSE <<>>)]
          [] state = "missing" ->
                [height |-> Pt(30),
                 ops |-> <<[op |-> "drawString", x |-> x, y |-> y,
                            text |-> <<"[Image not found: ", element.path, "]">>]>>]
          [] OTHER ->
                [height |-> Pt(30),
                 ops |-> <<[op |-> "drawString", x |-> x, y |-> y,
                            text |-> <<"[Error loading image: ", element.path, "]">>]>>]

\* Img.render (lines 534-575); scale = min(400 / w, 300 / h, 1.0)
render_img(element, x, y, theme) ==
    LET state == FileState(element.path)
        w == ImageSize(element.path)[1]
        h == ImageSize(element.path)[2]
        \* scaled_width and scaled_height, by the smallest of the three factors
        scaled == IF w <= 400 /\ h <= 300 THEN <<Pt(w), Pt(h)>>
                  ELSE IF 400 * h <= 300 * w THEN <<Pt(400), (Pt(400) * h) \div w>>
                  ELSE <<(Pt(300) * w) \div h, Pt(300)>>
    IN  CASE state = "image" ->
                [height |-> scaled[2] + (IF element.caption # <<>> THEN Pt(30) ELSE 0),
                 ops |-> <<[op |-> "drawImage", x |-> x, y |-> y - scaled[2],
                            w |-> scaled[1], h |-> scaled[2]]>>
                         \o (IF element.caption # <<>>
                             THEN <<[op |-> "drawString", x |-> x,
                                     y |-> y - scaled[2] - Pt(25),
                                     text |-> element.caption]>>
                             ELSE <<>>)]
          [] state = "missing" ->
                [height |-> IF element.caption # <<>> THEN Pt(60) ELSE Pt(30),
                 ops |-> <<[op |-> "drawString", x |-> x, y |-> y,
                            text |-> <<"[Image not found: ", element.path, "]">>]>>
                         \o (IF element.caption # <<>>
                             THEN <<[op |-> "drawString", x |-> x, y |-> y - Pt(30),
                                     text |-> element.caption]>>
                             ELSE <<>>)]
          [] OTHER ->
                [height |-> Pt(30),
                 ops |-> <<[op |-> "drawString", x |-> x, y |-> y,
                            text |-> <<"[Error loading image: ", element.path, "]">>]>>]

\* a faulty variant of render_background: a background that does not load gets
\* the placeholder and the height Img.render gives a missing image
render_background_placeholder(element, x, y, theme) ==
    IF FileState(element.path) = "image"
    THEN [height |-> 0,
          ops |-> <<[op |-> "drawImage", x |-> 0, y |-> 0, w |-> SLIDE_W, h |-> SLIDE_H]>>]
    ELSE [height |-> Pt(30),
          ops |-> <<[op |-> "drawString", x |-> x, y |-> y,
                     text |-> <<"[Image not found: ", element.path, "]">>]>>]

\* BackgroundImage.render (lines 750-766)
render_background(element, x, y, theme) ==
    [height |-> 0,
     ops |-> IF FileState(element.path) = "image"
             THEN <<[op |-> "drawImage", x |-> 0, y |-> 0, w |-> SLIDE_W, h |-> SLIDE_H]>>
             ELSE <<>>]

\* Center._estimate_text_width (lines 603-623)
Center_estimate_text_width(element, theme) ==
    IF element.kind \in TextKinds
    THEN stringWidth(element.text, FontName(element.kind), FontSize(element.kind, theme))
    ELSE 0

\* TitleSlide._estimate_text_width (lines 669-717): the width of the longest line
TitleSlide_estimate_text_width(element, theme) ==
    IF element.kind \in TextKinds
    THEN LET font_size == FontSize(element.kind, theme)
             lines == wrap_text(element.text, FontName(element.kind), font_size,
                                get_available_width)
         IN  MaxSeq([i \in 1..Len(lines) |->
                        stringWidth(lines[i], FontName(element.kind), font_size)])
    ELSE 0

\* Center.render, lines 587-599: the x the child is rendered at
Center_x(element, theme) ==
    LET page_width == SLIDE_W
        available_width == page_width - DEFAULT_MARGIN_LEFT - DEFAULT_MARGIN_RIGHT
        center_x == DEFAULT_MARGIN_LEFT + Half(available_width)
    IN  IF element.kind \in TextKinds
        THEN LET estimated_text_width == Center_estimate_text_width(element, theme)
             IN  Min(Max(DEFAULT_MARGIN_LEFT, center_x - Half(estimated_text_width)),
                     page_width - DEFAULT_MARGIN_RIGHT - estimated_text_width)
        ELSE center_x

\* TitleSlide.render, lines 648-665: the x the child is rendered at
TitleSlide_x(element, theme) ==
    LET page_width == SLIDE_W
        available_width == page_width - DEFAULT_MARGIN_LEFT - DEFAULT_MARGIN_RIGHT
    IN  IF element.kind \in TextKinds
        THEN LET estimated_text_width == TitleSlide_estimate_text_width(element, theme)
                 center_x == Half(page_width) - Half(estimated_text_width)
             IN  Min(Max(DEFAULT_MARGIN_LEFT, center_x),
                     page_width - DEFAULT_MARGIN_RIGHT - estimated_text_width)
        ELSE DEFAULT_MARGIN_LEFT + Half(available_width)

\* total_height = 0; current_y = y (CombinedElement.render, lines 88-89)
combined_start(y) == [current_y |-> y, total_height |-> 0, calls |-> <<>>, ops |-> <<>>]

\* a faulty variant of combined_step: the children are spaced by the gap of 10
\* that Slide.render uses
combined_step_gap(st, element, x, r) ==
    [current_y |-> st.current_y - (r.height + Pt(10)),
     total_height |-> st.total_height + r.height + Pt(10),
     calls |-> Append(st.calls, [element |-> element, x |-> x, y |-> st.current_y,
                                 height |-> r.height]),
     ops |-> st.ops \o r.ops]

\* lines 90-93, the body of the for loop; r is what element.render(canvas_obj,
\* x, current_y, theme) did
combined_step(st, element, x, r) ==
    [current_y |-> st.current_y - r.height,
     total_height |-> st.total_height + r.height,
     calls |-> Append(st.calls, [element |-> element, x |-> x, y |-> st.current_y,
                                 height |-> r.height]),
     ops |-> st.ops \o r.ops]

\* max_height = 0 (GridLayout.render, line 731)
grid_start == [max_height |-> 0, calls |-> <<>>, ops |-> <<>>]

\* lines 729-730 and 736: column_x = 50 + i * column_width for the i-th child,
\* counted from 0, with column_width = (page_width - 100) / self.columns
\* (rounded down to 1/20 point here)
column_x(i, columns) == Pt(50) + (i * (SLIDE_W - Pt(100))) \div columns

\* a faulty variant of grid_step: the heights of the columns are added up
grid_step_sum(st, element, x, y, r) ==
    [max_height |-> st.max_height + r.height,
     calls |-> Append(st.calls, [element |-> element, x |-> x, y |-> y,
                                 height |-> r.height]),
     ops |-> st.ops \o r.ops]

\* lines 737-738, the end of the body of the for loop; r is what
\* element.render(canvas_obj, column_x, y, theme) did
grid_step(st, element, x, y, r) ==
    [max_height |-> Max(st.max_height, r.height),
     calls |-> Append(st.calls, [element |-> element, x |-> x, y |-> y,
                                 height |-> r.height]),
     ops |-> st.ops \o r.ops]

RECURSIVE render(_, _, _, _)

RECURSIVE grid_loop(_, _, _, _, _, _)
\* lines 733-738: the for loop from its i-th iteration, which ends at the
\* "if i >= self.columns: break"
grid_loop(st, elements, i, columns, y, theme) ==
    IF elements = <<>> \/ i >= columns THEN st
    ELSE grid_loop(grid_step(st, Head(elements), column_x(i, columns), y,
                             render(Head(elements), column_x(i, columns), y, theme)),
                   Tail(elements), i + 1, columns, y, theme)

RECURSIVE combined_loop(_, _, _, _)
combined_loop(st, elements, x, theme) ==
    IF elements = <<>> THEN st
    ELSE combined_loop(combined_step(st, Head(elements), x,
                                     render(Head(elements), x, st.current_y, theme)),
                       Tail(elements), x, theme)

\* element.render(canvas_obj, x, y, theme), by the class of the element
render(element, x, y, theme) ==
    CASE element.kind \in TextKinds -> render_text(element, x, y, theme)
      [] element.kind = "Img" -> render_img(element, x, y, theme)
      [] element.kind = "BackgroundImage" -> render_background(element, x, y, theme)
      [] element.kind = "Center" ->
            render(element.element, Center_x(element.element, theme), y, theme)
      [] element.kind = "Bottom" -> render(element.element, x, Pt(50), theme)
      [] element.kind = "TitleSlide" ->
            render(element.element, TitleSlide_x(element.element, theme),
                   Half(SLIDE_H), theme)
      [] element.kind = "CombinedElement" ->
            LET st == combined_loop(combined_start(y), element.elements, x, theme)
            IN  [height |-> st.total_height, ops |-> st.ops]
      [] element.kind = "GridLayout" ->
            LET st == grid_loop(grid_start, element.elements, 0, element.columns, y,
                                theme)
            IN  [height |-> st.max_height, ops |-> st.ops]
      [] element.kind = "Code" -> render_code(element, x, y, theme)

-----------------------------------------------------------------------------
(* Inputs                                                                  *)

MaxWords == 4

\* the words texts are made of: the empty word (two spaces in a row, a leading
\* or a trailing space), a short word, a word of a third of a line, and a word
\* wider than the content width at every font size of the themes
WordPool == {<<>>, Rep("a", 1), Rep("a", 20), Rep("W", 30)}

RECURSIVE WordSeqs(_)
WordSeqs(n) ==
    IF n = 0 THEN {<<>>}
    ELSE LET shorter == WordSeqs(n - 1)
         IN  shorter \cup {Append(ws, w) : ws \in {s \in shorter : Len(s) = n - 1},
                                           w \in WordPool}

Texts == {Join(ws) : ws \in WordSeqs(MaxWords)}

\* the widths wrap_text is called with: the content width of every caller in
\* core.py, and a narrow column
WrapWidths == {get_available_width, Pt(300)}

-----------------------------------------------------------------------------
(* wrap_text, one loop iteration per step                                  *)

WrapIdle ==
    /\ w_pc = "done"
    /\ w_text = <<>>
    /\ w_maxw = 0
    /\ w_size = 0
    /\ w_todo = <<>>
    /\ w_cur = <<>>
    /\ w_lines = <<>>

WrapInit ==
    /\ w_pc = "call"
    /\ w_text \in Texts
    /\ w_maxw \in WrapWidths
    /\ w_size \in {Pt(24), Pt(48)}
    /\ w_todo = <<>>
    /\ w_cur = <<>>
    /\ w_lines = <<>>

\* lines 30-32: words = text.split(' '); lines = []; current_line = ""
WrapCall ==
    /\ w_pc = "call"
    /\ w_pc' = "loop"
    /\ w_todo' = SplitSpace(w_text)
    /\ w_cur' = <<>>
    /\ w_lines' = <<>>
    /\ UNCHANGED <<w_text, w_maxw, w_size>>
    /\ UNCHANGED not_w

\* lines 34-49: one iteration of the for loop
WrapWord ==
    /\ w_pc = "loop"
    /\ w_todo # <<>>
    /\ LET st == wrap_step([cur |-> w_cur, lines |-> w_lines], Head(w_todo),
                           "Helvetica", w_size, w_maxw)
       IN  /\ w_cur' = st.cur
           /\ w_lines' = st.lines
    /\ w_todo' = Tail(w_todo)
    /\ UNCHANGED <<w_pc, w_text, w_maxw, w_size>>
    /\ UNCHANGED not_w

\* lines 51-55: flush the last line and return
WrapReturn ==
    /\ w_pc = "loop"
    /\ w_todo = <<>>
    /\ w_pc' = "done"
    /\ w_lines' = wrap_finish([cur |-> w_cur, lines |-> w_lines])
    /\ UNCHANGED <<w_text, w_maxw, w_size, w_todo, w_cur>>
    /\ UNCHANGED not_w

WrapNext == WrapCall \/ WrapWord \/ WrapReturn

-----------------------------------------------------------------------------
(* Inputs of the render methods                                            *)

MaxChildren == 3

\* the text elements a wrapper is given
TextChildren == {TextElement(kind, t) : kind \in TextKinds, t \in Texts}

\* the children of a CombinedElement
ChildPool == {
    TextElement("BodyText", <<"a">>),
    TextElement("Head1", Join(<<Rep("a", 20), Rep("a", 20)>>)),
    TextElement("Bold", <<>>),
    BackgroundImage("bg.png"),
    Img("missing.png", <<"c">>),
    Img("wide.png", <<>>),
    Center(TextElement("Head3", <<"a", " ", "a">>)),
    CombinedElement(<<TextElement("Head2", <<"a">>), Img("photo.png", <<"c">>)>>)
}

RECURSIVE ChildSeqs(_)
ChildSeqs(n) ==
    IF n = 0 THEN {<<>>}
    ELSE LET shorter == ChildSeqs(n - 1)
         IN  shorter \cup {Append(es, e) : es \in {s \in shorter : Len(s) = n - 1},
                                           e \in ChildPool}

RECURSIVE SeqsOf(_, _)
\* the sequences of at most n members of S
SeqsOf(S, n) ==
    IF n = 0 THEN {<<>>}
    ELSE LET shorter == SeqsOf(S, n - 1)
         IN  shorter \cup {Append(es, e) : es \in {s \in shorter : Len(s) = n - 1},
                                           e \in S}

\* images that load, with and without the need to scale, a path with no file
\* and a file that does not decode, each with and without a caption
ImgRoots ==
    {Img(path, caption) : path \in {"photo.png", "wide.png", "missing.png", "broken.png"},
                          caption \in {<<>>, <<"c">>}}

BackgroundRoots ==
    {BackgroundImage(path) : path \in {"bg.png", "missing.png", "broken.png"}}

\* the empty code
CodeEmpty ==
    <<>>

\* code of whitespace only
CodeSpaces ==
    <<" ", " ", " ">>

\* "  x = 1\n\n  y = 2": two indented lines around a blank line
CodeExample ==
    <<" ", " ", "x", " ", "=", " ", "1", "\n", "\n", " ", " ", "y", " ", "=", " ",
      "2">>

\* a line of code between a leading and a trailing blank line
CodeFramed ==
    <<"\n", "x", " ", "=", " ", "1", "\n">>

\* blank lines before, between and after two lines of code
CodeBlanks ==
    <<"\n", " ", " ", "\n", "x", "\n", "\n", "y", "\n", " ", "\n">>

\* a comment
CodeComment ==
    <<"#", " ", "n", "o", "t", "e">>

\* a string with an escaped quote, then a // comment
CodeSlashes ==
    <<"s", " ", "=", " ", "\"", "a", "\\", "\"", "b", "\"", " ", "/", "/", " ", "c">>

\* keywords, an identifier and a number
CodeReturn ==
    <<"d", "e", "f", " ", "f", "(", "x", ")", ":", " ", "r", "e", "t", "u", "r", "n",
      " ", "1", "0">>

\* a number with a point and a string that is not closed
CodeOpen ==
    <<"n", " ", "=", " ", "3", ".", "5", " ", "+", " ", "'", "a", "b">>

\* a line of 80 characters, indented by four spaces: too wide for a code
\* block at every theme
CodeLong == Rep(" ", 4) \o Join([i \in 1..7 |-> Rep("a", 10)])

CodePool ==
    {CodeEmpty, CodeSpaces, CodeExample, CodeFramed, CodeBlanks, CodeComment,
     CodeSlashes, CodeReturn, CodeOpen, CodeLong, <<"x", "\n">> \o CodeLong}

\* no language; languages with a keyword table; a language pygments knows that
\* has no keyword table; a name pygments does not know
Languages == {"None", "python", "javascript", "java", "ruby", "klingon"}

CodeRoots == {Code(code, language) : code \in CodePool, language \in Languages}

\* the children of a GridLayout: heights of one line, two lines, none, and the
\* fixed height of a missing image with a caption
GridChildPool == {
    TextElement("BodyText", <<"a">>),
    TextElement("Head1", Join(<<Rep("a", 20), Rep("a", 20)>>)),
    BackgroundImage("bg.png"),
    Img("missing.png", <<"c">>)
}

\* GridLayout(elements, columns) for columns >= 1
GridColumns == {1, 2, 3}

GridRoots ==
    {GridLayout(es, columns) : es \in SeqsOf(GridChildPool, MaxChildren),
                               columns \in GridColumns}

\* the elements whose render method is called
RenderRoots ==
    {Center(e) : e \in TextChildren \cup ChildPool}
        \cup {TitleSlide(e) : e \in TextChildren \cup ChildPool}
        \cup {Bottom(e) : e \in ChildPool}
        \cup {CombinedElement(es) : es \in ChildSeqs(MaxChildren)}
        \cup ChildPool
        \cup ImgRoots \cup BackgroundRoots \cup CodeRoots \cup GridRoots

\* Slide.render starts at the top margin; a CombinedElement passes lower positions
RenderYs == {SLIDE_H - DEFAULT_MARGIN_TOP, Pt(200)}

-----------------------------------------------------------------------------
(* The render methods, one call per behaviour                              *)

RenderIdle ==
    /\ r_pc = "done"
    /\ r_root = BackgroundImage("missing.png")
    /\ r_theme = DefaultTheme
    /\ r_x = 0
    /\ r_y = 0
    /\ r_width = 0
    /\ r_child_x = 0
    /\ r_todo = <<>>
    /\ r_current_y = 0
    /\ r_calls = <<>>
    /\ r_ops = <<>>
    /\ r_height = 0

RenderInit ==
    /\ r_pc = "call"
    /\ r_root \in RenderRoots
    /\ r_theme \in Themes
    /\ r_x = DEFAULT_MARGIN_LEFT
    /\ r_y \in RenderYs
    /\ r_width = 0
    /\ r_child_x = 0
    /\ r_todo = <<>>
    /\ r_current_y = 0
    /\ r_calls = <<>>
    /\ r_ops = <<>>
    /\ r_height = 0

\* the call self.element.render(canvas_obj, x, y, theme) a wrapper ends with
RenderChild(x, y) ==
    LET r == render(r_root.element, x, y, r_theme)
    IN  /\ r_calls' = <<[element |-> r_root.element, x |-> x, y |-> y,
                         height |-> r.height]>>
        /\ r_ops' = r.ops
        /\ r_height' = r.height
        /\ r_pc' = "done"
        /\ UNCHANGED <<r_root, r_theme, r_x, r_y, r_todo, r_current_y>>

\* Center.render (lines 585-601)
RenderCenter ==
    /\ r_pc = "call"
    /\ r_root.kind = "Center"
    /\ r_width' = Center_estimate_text_width(r_root.element, r_theme)
    /\ r_child_x' = Center_x(r_root.element, r_theme)
    /\ RenderChild(Center_x(r_root.element, r_theme), r_y)
    /\ UNCHANGED not_r

\* TitleSlide.render (lines 646-667)
RenderTitleSlide ==
    /\ r_pc = "call"
    /\ r_root.kind = "TitleSlide"
    /\ r_width' = TitleSlide_estimate_text_width(r_root.element, r_theme)
    /\ r_child_x' = TitleSlide_x(r_root.element, r_theme)
    /\ RenderChild(TitleSlide_x(r_root.element, r_theme), Half(SLIDE_H))
    /\ UNCHANGED not_r

\* Bottom.render (lines 633-636)
RenderBottom ==
    /\ r_pc = "call"
    /\ r_root.kind = "Bottom"
    /\ r_child_x' = r_x
    /\ RenderChild(r_x, Pt(50))
    /\ UNCHANGED <<r_width>>
    /\ UNCHANGED not_r

\* the render of a text element, an Img or a BackgroundImage
RenderLeaf ==
    /\ r_pc = "call"
    /\ r_root.kind \in TextKinds \cup {"Img", "BackgroundImage"}
    /\ LET r == render(r_root, r_x, r_y, r_theme)
       IN  /\ r_ops' = r.ops
           /\ r_height' = r.height
    /\ r_pc' = "done"
    /\ UNCHANGED <<r_root, r_theme, r_x, r_y, r_width, r_child_x, r_todo,
                   r_current_y, r_calls>>
    /\ UNCHANGED not_r

\* CombinedElement.render, lines 88-89
CombinedCall ==
    /\ r_pc = "call"
    /\ r_root.kind = "CombinedElement"
    /\ r_pc' = "loop"
    /\ r_todo' = r_root.elements
    /\ LET st == combined_start(r_y)
       IN  /\ r_current_y' = st.current_y
           /\ r_height' = st.total_height
           /\ r_calls' = st.calls
           /\ r_ops' = st.ops
    /\ UNCHANGED <<r_root, r_theme, r_x, r_y, r_width, r_child_x>>
    /\ UNCHANGED not_r

\* CombinedElement.render, lines 90-93: one iteration of the for loop
CombinedChild ==
    /\ r_pc = "loop"
    /\ r_root.kind = "CombinedElement"
    /\ r_todo # <<>>
    /\ LET st == combined_step([current_y |-> r_current_y, total_height |-> r_height,
                                calls |-> r_calls, ops |-> r_ops],
                               Head(r_todo), r_x,
                               render(Head(r_todo), r_x, r_current_y, r_theme))
       IN  /\ r_current_y' = st.current_y
           /\ r_height' = st.total_height
           /\ r_calls' = st.calls
           /\ r_ops' = st.ops
    /\ r_todo' = Tail(r_todo)
    /\ UNCHANGED <<r_pc, r_root, r_theme, r_x, r_y, r_width, r_child_x>>
    /\ UNCHANGED not_r

\* CombinedElement.render, line 94: return total_height
CombinedReturn ==
    /\ r_pc = "loop"
    /\ r_root.kind = "CombinedElement"
    /\ r_todo = <<>>
    /\ r_pc' = "done"
    /\ UNCHANGED <<r_root, r_theme, r_x, r_y, r_width, r_child_x, r_todo, r_current_y,
                   r_calls, r_ops, r_height>>
    /\ UNCHANGED not_r

\* Code.render (lines 292-351)
RenderCode ==
    /\ r_pc = "call"
    /\ r_root.kind = "Code"
    /\ LET r == render_code(r_root, r_x, r_y, r_theme)
       IN  /\ r_ops' = r.ops
           /\ r_height' = r.height
    /\ r_pc' = "done"
    /\ UNCHANGED <<r_root, r_theme, r_x, r_y, r_width, r_child_x, r_todo,
                   r_current_y, r_calls>>
    /\ UNCHANGED not_r

\* GridLayout.render, lines 729-731
GridCall ==
    /\ r_pc = "call"
    /\ r_root.kind = "GridLayout"
    /\ r_pc' = "loop"
    /\ r_todo' = r_root.elements
    /\ LET st == grid_start
       IN  /\ r_height' = st.max_height
           /\ r_calls' = st.calls
           /\ r_ops' = st.ops
    /\ UNCHANGED <<r_root, r_theme, r_x, r_y, r_width, r_child_x, r_current_y>>
    /\ UNCHANGED not_r

\* GridLayout.render, lines 733-738: one iteration of the for loop that does
\* not break; i is the number of children rendered so far
GridChild ==
    /\ r_pc = "loop"
    /\ r_root.kind = "GridLayout"
    /\ r_todo # <<>>
    /\ Len(r_calls) < r_root.columns
    /\ LET x == column_x(Len(r_calls), r_root.columns)
           st == grid_step([max_height |-> r_height, calls |-> r_calls, ops |-> r_ops],
                           Head(r_todo), x, r_y,
                           render(Head(r_todo), x, r_y, r_theme))
       IN  /\ r_height' = st.max_height
           /\ r_calls' = st.calls
           /\ r_ops' = st.ops
    /\ r_todo' = Tail(r_todo)
    /\ UNCHANGED <<r_pc, r_root, r_theme, r_x, r_y, r_width, r_child_x, r_current_y>>
    /\ UNCHANGED not_r

\* GridLayout.render, lines 734-735 and 740: the loop ends, by exhaustion or
\* by the break, and max_height is returned
GridReturn ==
    /\ r_pc = "loop"
    /\ r_root.kind = "GridLayout"
    /\ r_todo = <<>> \/ Len(r_calls) >= r_root.columns
    /\ r_pc' = "done"
    /\ UNCHANGED <<r_root, r_theme, r_x, r_y, r_width, r_child_x, r_todo, r_current_y,
                   r_calls, r_ops, r_height>>
    /\ UNCHANGED not_r

RenderNext ==
    \/ RenderCenter
    \/ RenderTitleSlide
    \/ RenderBottom
    \/ RenderLeaf
    \/ RenderCode
    \/ CombinedCall
    \/ CombinedChild
    \/ CombinedReturn
    \/ GridCall
    \/ GridChild
    \/ GridReturn

-----------------------------------------------------------------------------
(* PyzlidesPDF.generate                                                    *)

MaxSlides == 3

\* the element lists of the logical slides of the scenario: Head1("Title");
\* one BodyText of 5000 characters; BackgroundImage followed by BodyText("caption")
ScenarioSlides ==
    <<<<Len(ElemPool) + 1>>, <<Len(ElemPool) + 2>>, <<Len(ElemPool) + 3, Len(ElemPool) + 4>>>>

\* the element lists a logical slide of a generated deck has
SlideChoices == {<<>>, <<2>>, <<1, 2, 3>>, <<4, 4>>, <<5, 3, 6>>, <<7, 1, 4, 4>>}

RECURSIVE Decks(_)
\* the decks of at most n logical slides, each an element list
Decks(n) ==
    IF n = 0 THEN {<<>>}
    ELSE LET shorter == Decks(n - 1)
         IN  shorter \cup {Append(d, e) : d \in {s \in shorter : Len(s) = n - 1},
                                          e \in SlideChoices}

\* the Slide objects of a deck: the i-th has identity i
DeckSlides(deck) == [i \in 1..Len(deck) |-> Slide(i, deck[i])]

\* the number of Slide objects of a list constructed by the call that returned it
FreshCount(slides, next_id) ==
    Cardinality({i \in 1..Len(slides) : slides[i].id >= next_id})

\* a canvas call of generate, or the render call of an element (by reference)
\* at the height y, whose own canvas calls are left out
canvas_call(op, slide, element, y) ==
    [op |-> op, slide |-> slide, element |-> element, y |-> y]

\* a faulty variant of slide_advance: the elements of a slide are stacked with
\* no spacing
slide_advance_tight(current_y, height) == current_y - height

\* line 787: current_y -= height + 10
slide_advance(current_y, height) == current_y - (height + Pt(10))

RECURSIVE slide_render(_, _, _, _)
\* Slide.render (lines 779-787): the for loop from current_y on; the position
\* after the last element is not read, and is not computed here
slide_render(slide, elements, current_y, theme) ==
    IF elements = <<>> THEN <<>>
    ELSE <<canvas_call("render", slide.id, Head(elements), current_y)>>
         \o (IF Len(elements) = 1 THEN <<>>
             ELSE slide_render(slide, Tail(elements),
                      slide_advance(current_y,
                          render(AllElems[Head(elements)], DEFAULT_MARGIN_LEFT,
                                 current_y, theme).height),
                      theme))

\* render_slide (lines 932-941): the background rectangle over the page, the
\* slide's elements from the top margin down, showPage
render_slide(slide, theme) ==
    <<canvas_call("rect", slide.id, 0, 0)>>
        \o slide_render(slide, slide.elements, SLIDE_H - DEFAULT_MARGIN_TOP, theme)
        \o <<canvas_call("showPage", slide.id, 0, 0)>>

GenerateIdle ==
    /\ g_pc = "done"
    /\ g_slides = <<>>
    /\ g_theme = DefaultTheme
    /\ g_todo = <<>>
    /\ g_pages = <<>>
    /\ g_counts = <<>>
    /\ g_total = 0
    /\ g_next_id = 1
    /\ g_canvas = <<>>

GenerateInit ==
    /\ g_pc = "call"
    /\ g_slides \in {DeckSlides(deck) : deck \in Decks(MaxSlides) \cup {ScenarioSlides}}
    /\ g_theme \in Themes
    /\ g_todo = <<>>
    /\ g_pages = <<>>
    /\ g_counts = <<>>
    /\ g_total = 0
    /\ g_next_id = Len(g_slides) + 1
    /\ g_canvas = <<>>

\* line 945: total_slides_rendered = 0, and the outer loop starts
GenerateCall ==
    /\ g_pc = "call"
    /\ g_pc' = "loop"
    /\ g_todo' = g_slides
    /\ g_total' = 0
    /\ UNCHANGED <<g_slides, g_theme, g_pages, g_counts, g_next_id, g_canvas>>
    /\ UNCHANGED not_g

\* lines 946-948: the next logical slide is paginated
GeneratePaginate ==
    /\ g_pc = "loop"
    /\ g_pages = <<>>
    /\ g_todo # <<>>
    /\ LET overflow_slides ==
               render_with_overflow_detection(Head(g_todo), g_theme, g_next_id)
       IN  /\ g_pages' = overflow_slides
           /\ g_counts' = Append(g_counts, Len(overflow_slides))
           /\ g_next_id' = g_next_id + FreshCount(overflow_slides, g_next_id)
    /\ g_todo' = Tail(g_todo)
    /\ UNCHANGED <<g_pc, g_slides, g_theme, g_total, g_canvas>>
    /\ UNCHANGED not_g

\* lines 949-951: the next physical slide is rendered and counted
GenerateRenderSlide ==
    /\ g_pc = "loop"
    /\ g_pages # <<>>
    /\ g_canvas' = g_canvas \o render_slide(Head(g_pages), g_theme)
    /\ g_total' = g_total + 1
    /\ g_pages' = Tail(g_pages)
    /\ UNCHANGED <<g_pc, g_slides, g_theme, g_todo, g_counts, g_next_id>>
    /\ UNCHANGED not_g

\* lines 952-953: self.canvas.save() and the report
GenerateSave ==
    /\ g_pc = "loop"
    /\ g_pages = <<>>
    /\ g_todo = <<>>
    /\ g_pc' = "done"
    /\ g_canvas' = Append(g_canvas, canvas_call("save", 0, 0, 0))
    /\ UNCHANGED <<g_slides, g_theme, g_todo, g_pages, g_counts, g_total, g_next_id>>
    /\ UNCHANGED not_g

GenerateNext == GenerateCall \/ GeneratePaginate \/ GenerateRenderSlide \/ GenerateSave

-----------------------------------------------------------------------------
(* render_with_overflow_detection, one loop iteration per step             *)

PaginateIdle ==
    /\ p_pc = "done"
    /\ p_elements = <<>>
    /\ p_theme = DefaultTheme
    /\ p_todo = <<>>
    /\ p_current_y = 0
    /\ p_slides = <<>>
    /\ p_current = <<>>
    /\ p_next_id = 1
    /\ p_result = <<>>

PaginateInit ==
    /\ p_pc = "call"
    /\ p_elements \in IdSeqs(MaxElems)
    /\ p_theme \in Themes
    /\ p_todo = <<>>
    /\ p_current_y = 0
    /\ p_slides = <<>>
    /\ p_current = <<>>
    /\ p_next_id = 1
    /\ p_result = <<>>

\* lines 791-796
PaginateCall ==
    /\ p_pc = "call"
    /\ p_pc' = "loop"
    /\ p_todo' = p_elements
    /\ LET st == overflow_start(p_next_id)
       IN  /\ p_current_y' = st.current_y
           /\ p_slides' = st.slides
           /\ p_current' = st.current
    /\ UNCHANGED <<p_elements, p_theme, p_next_id, p_result>>
    /\ UNCHANGED not_p

\* lines 798-811: one iteration of the for loop
PaginateElement ==
    /\ p_pc = "loop"
    /\ p_todo # <<>>
    /\ LET st == overflow_step([current_y |-> p_current_y, slides |-> p_slides,
                                current |-> p_current, next_id |-> p_next_id],
                               Head(p_todo), p_theme)
       IN  /\ p_current_y' = st.current_y
           /\ p_slides' = st.slides
           /\ p_current' = st.current
           /\ p_next_id' = st.next_id
    /\ p_todo' = Tail(p_todo)
    /\ UNCHANGED <<p_pc, p_elements, p_theme, p_result>>
    /\ UNCHANGED not_p

\* lines 813-821
PaginateReturn ==
    /\ p_pc = "loop"
    /\ p_todo = <<>>
    /\ p_pc' = "done"
    /\ p_result' = overflow_finish([current_y |-> p_current_y, slides |-> p_slides,
                                    current |-> p_current, next_id |-> p_next_id],
                                   Slide(SelfId, p_elements))
    /\ UNCHANGED <<p_elements, p_theme, p_todo, p_current_y, p_slides, p_current,
                   p_next_id>>
    /\ UNCHANGED not_p

PaginateNext == PaginateCall \/ PaginateElement \/ PaginateReturn

-----------------------------------------------------------------------------
(* One element, estimated and then rendered                                *)

\* a theme of a config.yaml that sets both font sizes to 0
ZeroTheme == [font_size |-> 0, header_font_size |-> 0]

\* the text lengths of the elements estimated: none, one character, a length
\* between two multiples, and lengths for which len(text) * font_size is an
\* exact multiple of the content width (692 = 4 * 173)
EstimateLengths == {0, 1, 100, 173, 346}

\* elements of every class
EstimateElems ==
    {TextElement(kind, Rep("a", n)) : kind \in TextKinds, n \in EstimateLengths}
        \cup CodeRoots \cup ImgRoots \cup BackgroundRoots
        \cup {Center(e) : e \in GridChildPool}
        \cup {Bottom(e) : e \in GridChildPool}
        \cup {TitleSlide(e) : e \in GridChildPool}
        \cup {GridLayout(es, columns) : es \in SeqsOf(GridChildPool, 2),
                                       columns \in GridColumns}
        \cup {CombinedElement(es) : es \in SeqsOf(GridChildPool, 2)}

EstimateIdle ==
    /\ e_pc = "done"
    /\ e_element = BackgroundImage("missing.png")
    /\ e_theme = DefaultTheme
    /\ e_estimate = 0
    /\ e_height = 0
    /\ e_ops = <<>>

EstimateInit ==
    /\ e_pc = "call"
    /\ e_element \in EstimateElems
    /\ e_theme \in Themes \cup {ZeroTheme}
    /\ e_estimate = 0
    /\ e_height = 0
    /\ e_ops = <<>>

\* line 799: estimated_height = self._estimate_element_height(element, theme)
EstimateHeight ==
    /\ e_pc = "call"
    /\ e_pc' = "estimated"
    /\ e_estimate' = _estimate_element_height(e_element, e_theme)
    /\ UNCHANGED <<e_element, e_theme, e_height, e_ops>>
    /\ UNCHANGED not_e

\* line 786, for the first element of a slide:
\* height = element.render(canvas_obj, DEFAULT_MARGIN_LEFT, current_y, theme)
EstimateRender ==
    /\ e_pc = "estimated"
    /\ e_pc' = "done"
    /\ LET r == render(e_element, DEFAULT_MARGIN_LEFT, SLIDE_H - DEFAULT_MARGIN_TOP,
                       e_theme)
       IN  /\ e_height' = r.height
           /\ e_ops' = r.ops
    /\ UNCHANGED <<e_element, e_theme, e_estimate>>
    /\ UNCHANGED not_e

EstimateNext == EstimateHeight \/ EstimateRender

-----------------------------------------------------------------------------
(* generate_pdf of cli.py and load_slide_from_file                         *)

MaxFiles == 3

\* the entries of slide_order
SlidePaths ==
    {"missing.py", "list.py", "element.py", "combined.py", "slide.py", "novar.py",
     "number.py", "raises.py"}

\* the Slide object slide.py builds; its identity is not one generate_pdf gives
AuthoredSlide ==
    [id |-> 0, elements |-> <<TextElement("Head1", <<"a">>),
                              TextElement("BodyText", <<"a">>)>>]

\* what is at a path: no file; a file whose execution raises; a file that
\* defines no variable slide; a file that sets slide to a list of elements,
\* to one element, to a CombinedElement, to a Slide or to a number
SlideFile(path) ==
    CASE path = "missing.py"  -> [state |-> "missing", type |-> "none", value |-> <<>>]
      [] path = "raises.py"   -> [state |-> "raises", type |-> "none", value |-> <<>>]
      [] path = "novar.py"    -> [state |-> "loads", type |-> "none", value |-> <<>>]
      [] path = "list.py"     ->
            [state |-> "loads", type |-> "list",
             value |-> <<TextElement("Head1", <<"a">>), Img("photo.png", <<>>)>>]
      [] path = "element.py"  ->
            [state |-> "loads", type |-> "element",
             value |-> Center(TextElement("Head1", <<"a">>))]
      [] path = "combined.py" ->
            [state |-> "loads", type |-> "element",
             value |-> CombinedElement(<<TextElement("BodyText", <<"a">>),
                                         TextElement("Bold", <<"a">>)>>)]
      [] path = "slide.py"    -> [state |-> "loads", type |-> "Slide",
                                  value |-> AuthoredSlide]
      [] OTHER                -> [state |-> "loads", type |-> "int", value |-> <<>>]

\* Slide(BodyText(message + path)): a Slide of the one BodyText
message_slide(id, message, path) ==
    Slide(id, <<TextElement("BodyText", <<message, path>>)>>)

\* load_slide_from_file (lines 956-1009); a Slide has the attribute elements,
\* and is caught by the hasattr test of the elif before the isinstance test
\* of Slide is reached
load_slide_from_file(file_path, id) ==
    LET file == SlideFile(file_path)
    IN  IF file.state = "raises" THEN message_slide(id, "Error loading slide: ", file_path)
        ELSE IF file.type = "list" THEN Slide(id, file.value)
        ELSE IF file.type \in {"element", "Slide"} THEN Slide(id, <<file.value>>)
        ELSE message_slide(id, "Error loading slide: ", file_path)

\* a faulty variant of load_step: an entry with no file is left out
load_step_skip(slides, slide_file, id) ==
    IF SlideFile(slide_file).state # "missing"
    THEN Append(slides, load_slide_from_file(slide_file, id))
    ELSE slides

\* cli.py lines 19-25, the body of the for loop
load_step(slides, slide_file, id) ==
    IF SlideFile(slide_file).state # "missing"
    THEN Append(slides, load_slide_from_file(slide_file, id))
    ELSE Append(slides, message_slide(id, "Slide not found: ", slide_file))

LoadIdle ==
    /\ l_pc = "done"
    /\ l_files = <<>>
    /\ l_todo = <<>>
    /\ l_slides = <<>>
    /\ l_next_id = 1
    /\ l_called = FALSE
    /\ l_handed = <<>>

LoadInit ==
    /\ l_pc = "call"
    /\ l_files \in SeqsOf(SlidePaths, MaxFiles)
    /\ l_todo = <<>>
    /\ l_slides = <<>>
    /\ l_next_id = 1
    /\ l_called = FALSE
    /\ l_handed = <<>>

\* cli.py lines 13-15: "No slide files specified in configuration" and return
LoadNothing ==
    /\ l_pc = "call"
    /\ l_files = <<>>
    /\ l_pc' = "done"
    /\ UNCHANGED <<l_files, l_todo, l_slides, l_next_id, l_called, l_handed>>
    /\ UNCHANGED not_l

\* cli.py lines 18-19: slides = [], and the for loop starts
LoadCall ==
    /\ l_pc = "call"
    /\ l_files # <<>>
    /\ l_pc' = "loop"
    /\ l_todo' = l_files
    /\ l_slides' = <<>>
    /\ UNCHANGED <<l_files, l_next_id, l_called, l_handed>>
    /\ UNCHANGED not_l

\* cli.py lines 19-25: one iteration of the for loop
LoadFile ==
    /\ l_pc = "loop"
    /\ l_todo # <<>>
    /\ l_slides' = load_step(l_slides, Head(l_todo), l_next_id)
    /\ l_next_id' = l_next_id + 1
    /\ l_todo' = Tail(l_todo)
    /\ UNCHANGED <<l_pc, l_files, l_called, l_handed>>
    /\ UNCHANGED not_l

\* cli.py lines 27-33: "No slides to generate" and return, or
\* pdf_generator.generate(slides, theme)
LoadGenerate ==
    /\ l_pc = "loop"
    /\ l_todo = <<>>
    /\ l_pc' = "done"
    /\ l_called' = (l_slides # <<>>)
    /\ l_handed' = l_slides
    /\ UNCHANGED <<l_files, l_todo, l_slides, l_next_id>>
    /\ UNCHANGED not_l

LoadNext == LoadNothing \/ LoadCall \/ LoadFile \/ LoadGenerate

-----------------------------------------------------------------------------
(* The + operator of the elements                                          *)

MaxOperands == 3

\* a Python str as an operand of +
Str(text) == [kind |-> "str", text |-> text]

\* Head1(text, color) ... Bold(text, color)
TextElementColored(kind, text, color) == [kind |-> kind, text |-> text, color |-> color]

\* the value a binary special method returns when it does not handle the operand
NotImplemented == [kind |-> "NotImplemented"]

\* the exception + raises when neither operand handles the other
TypeError == [kind |-> "TypeError"]

\* isinstance(other, BaseElement)
IsBaseElement(other) ==
    other.kind \in TextKinds \cup {"Code", "Img", "Center", "Bottom", "TitleSlide",
                                  "GridLayout", "BackgroundImage", "CombinedElement"}

\* BaseElement.__add__ (lines 73-77)
BaseElement__add__(self, other) ==
    IF IsBaseElement(other) THEN CombinedElement(<<self, other>>) ELSE NotImplemented

\* a faulty variant of text__add__: the string is nested as a child next to the
\* element instead of being appended to its text
text__add__nested(self, other) ==
    IF other.kind = "str"
    THEN CombinedElement(<<self, TextElementColored(self.kind, other.text, self.color)>>)
    ELSE BaseElement__add__(self, other)

\* Head1.__add__ ... Bold.__add__ (lines 131-134, 166-169, 201-204, 236-239,
\* 271-274)
text__add__(self, other) ==
    IF other.kind = "str"
    THEN TextElementColored(self.kind, self.text \o other.text, self.color)
    ELSE BaseElement__add__(self, other)

\* Code.__add__ (lines 520-523)
Code__add__(self, other) ==
    IF other.kind = "str"
    THEN [kind |-> "Code", code |-> self.code \o other.text,
          language |-> self.language, background_color |-> self.background_color]
    ELSE BaseElement__add__(self, other)

\* CombinedElement.__add__ (lines 96-99)
CombinedElement__add__(self, other) ==
    IF IsBaseElement(other) THEN CombinedElement(self.elements \o <<other>>)
    ELSE NotImplemented

\* type(self).__add__(self, other), by the class of self; str.__add__ takes a
\* str only
__add__(self, other) ==
    CASE self.kind = "str" ->
            IF other.kind = "str" THEN Str(self.text \o other.text) ELSE NotImplemented
      [] self.kind \in TextKinds -> text__add__(self, other)
      [] self.kind = "Code" -> Code__add__(self, other)
      [] self.kind = "CombinedElement" -> CombinedElement__add__(self, other)
      [] OTHER -> BaseElement__add__(self, other)

\* Bold.__radd__ (lines 276-280)
Bold__radd__(self, other) ==
    IF other.kind = "str" THEN Str(other.text \o self.text) ELSE NotImplemented

\* type(self).__radd__(self, other): only Bold defines it
__radd__(self, other) ==
    IF self.kind = "Bold" THEN Bold__radd__(self, other) ELSE NotImplemented

\* left + right as Python evaluates it: left.__add__(right), and when that
\* returns NotImplemented, right.__radd__(left); TypeError when both do
plus(left, right) ==
    IF __add__(left, right) # NotImplemented THEN __add__(left, right)
    ELSE IF __radd__(right, left) # NotImplemented THEN __radd__(right, left)
    ELSE TypeError

\* the operands: strings, text elements of every class with and without a
\* colour, an image, a code block and a
\* CombinedElement
AddOperands ==
    {Str(<<"*", " ">>), Str(<<" ", "s">>),
     TextElement("Bold", <<"D">>),
     TextElementColored("Bold", <<"D">>, "#FF0000"),
     TextElementColored("Head1", <<"h">>, "#00FF00"),
     TextElement("Head2", <<"h">>),
     TextElement("Head3", <<"h">>),
     TextElementColored("BodyText", <<"b">>, "#0000FF"),
     Img("photo.png", <<>>),
     Code(<<"x">>, "python"),
     CombinedElement(<<TextElement("Head1", <<"h">>), TextElement("Bold", <<"D">>)>>)}

AddIdle ==
    /\ a_pc = "done"
    /\ a_operands = <<>>
    /\ a_todo = <<>>
    /\ a_acc = Str(<<>>)
    /\ a_left = Str(<<>>)
    /\ a_right = Str(<<>>)

AddInit ==
    /\ a_pc = "call"
    /\ a_operands \in {ops \in SeqsOf(AddOperands, MaxOperands) : Len(ops) >= 2}
    /\ a_todo = <<>>
    /\ a_acc = Str(<<>>)
    /\ a_left = Str(<<>>)
    /\ a_right = Str(<<>>)

\* the first operand is evaluated
AddCall ==
    /\ a_pc = "call"
    /\ a_pc' = "eval"
    /\ a_acc' = Head(a_operands)
    /\ a_todo' = Tail(a_operands)
    /\ UNCHANGED <<a_operands, a_left, a_right>>
    /\ UNCHANGED not_a

\* one +: the value so far plus the next operand, or the TypeError it raises
AddPlus ==
    /\ a_pc = "eval"
    /\ a_todo # <<>>
    /\ a_left' = a_acc
    /\ a_right' = Head(a_todo)
    /\ a_acc' = plus(a_acc, Head(a_todo))
    /\ a_todo' = Tail(a_todo)
    /\ a_pc' = IF plus(a_acc, Head(a_todo)) = TypeError THEN "raised" ELSE "eval"
    /\ UNCHANGED a_operands
    /\ UNCHANGED not_a

\* the expression has its value
AddReturn ==
    /\ a_pc = "eval"
    /\ a_todo = <<>>
    /\ a_pc' = "done"
    /\ UNCHANGED <<a_operands, a_todo, a_acc, a_left, a_right>>
    /\ UNCHANGED not_a

AddNext == AddCall \/ AddPlus \/ AddReturn

WrapCodeIdle ==
    /\ c_pc = "done"
    /\ c_line = <<>>
    /\ c_size = 0
    /\ c_maxw = 0
    /\ c_leading = <<>>
    /\ c_wrapped = <<>>
    /\ c_remaining = <<>>

\* the iterations of the while loop one run may take here; a line that is
\* wrapped needs fewer
MaxSegments == 10

\* font_size and max_width as Code.render passes them, and a narrow max_width
CodeFontSizes == {theme.font_size * 16 : theme \in {DefaultTheme, LargeTheme}}

CodeMaxWidth == get_available_width - Pt(20)

NarrowMaxWidth == Pt(120)

\* lines of code for the width of the slide
WideLines ==
    {Rep(" ", 56) \o <<"a", "b", "c">>,
     Rep(" ", 56) \o <<"a", "b", ",", " ", "c", "d">>,
     Rep(" ", 36) \o Rep("a", 30),
     Rep("a", 58) \o <<",">> \o Rep("b", 3),
     Rep("a", 50) \o <<",", " ">> \o Rep("b", 10),
     Rep("a", 30) \o <<"(">> \o Rep("b", 30) \o <<")", ";">>,
     Rep("a", 60)}

\* the code after the indentation, for the narrow width
NarrowBodies ==
    {<<"a", "b", "c">>,
     <<"a", "b", ",", " ", "c", "d">>,
     Rep("a", 10) \o <<",", "k", "l">>,
     <<"f", "(", "a", ")", "{", "x", ";", "}">>,
     <<"a", " ", "b", " ", "c", " ", "d", " ", "e", " ", "f">>,
     Rep("a", 6) \o <<";", "b">>}

NarrowLines ==
    {Rep(" ", n) \o body : n \in {0, 2, 4, 8}, body \in NarrowBodies}
        \cup {<<" ", " ">>, <<"\t">> \o Rep("a", 10)}

\* the calls of _wrap_code_line: a line, a font size and a max_width
WrapCodeCalls ==
    [line : WideLines, font_size : CodeFontSizes, max_width : {CodeMaxWidth}]
        \cup
    [line : NarrowLines, font_size : CodeFontSizes, max_width : {NarrowMaxWidth}]

WrapCodeInit ==
    /\ c_pc = "call"
    /\ \E call \in WrapCodeCalls :
           /\ c_line = call.line
           /\ c_size = call.font_size
           /\ c_maxw = call.max_width
    /\ c_leading = <<>>
    /\ c_wrapped = <<>>
    /\ c_remaining = <<>>

\* lines 356-370: the line is blank or fits and is returned as it is
WrapCodeAsIs ==
    /\ c_pc = "call"
    /\ IsBlank(c_line) \/ stringWidth(c_line, "Courier", c_size) <= c_maxw
    /\ c_pc' = "done"
    /\ c_leading' = leading_whitespace(c_line)
    /\ c_wrapped' = <<c_line>>
    /\ UNCHANGED <<c_line, c_size, c_maxw, c_remaining>>
    /\ UNCHANGED not_c

\* lines 356-374: the line is too wide, the while loop is entered
WrapCodeEnter ==
    /\ c_pc = "call"
    /\ ~IsBlank(c_line)
    /\ stringWidth(c_line, "Courier", c_size) > c_maxw
    /\ c_pc' = "loop"
    /\ c_leading' = leading_whitespace(c_line)
    /\ c_wrapped' = <<>>
    /\ c_remaining' = c_line
    /\ UNCHANGED <<c_line, c_size, c_maxw>>
    /\ UNCHANGED not_c

\* lines 376-422: one iteration of the while loop, and the return when it
\* leaves the loop
WrapCodeIteration ==
    /\ c_pc = "loop"
    /\ Len(c_wrapped) < MaxSegments
    /\ \E step \in {wrap_code_step(c_wrapped, c_remaining, c_leading, "Courier",
                                    c_size, c_maxw)} :
           /\ c_wrapped' = step.wrapped_lines
           /\ c_remaining' = step.remaining_line
           /\ c_pc' = IF step.break THEN "done" ELSE "loop"
    /\ UNCHANGED <<c_line, c_size, c_maxw, c_leading>>
    /\ UNCHANGED not_c

WrapCodeNext == WrapCodeAsIs \/ WrapCodeEnter \/ WrapCodeIteration

InitWrapCode ==
    WrapCodeInit /\ WrapIdle /\ PaginateIdle /\ RenderIdle /\ GenerateIdle
        /\ EstimateIdle /\ LoadIdle /\ AddIdle

SpecWrapCode == InitWrapCode /\ [][WrapCodeNext]_vars

\* _wrap_code_line is one call without a wait in it: a step that can be taken is
\* taken
SpecWrapCodeFair == SpecWrapCode /\ WF_vars(WrapCodeNext)

InitAdd ==
    AddInit /\ WrapIdle /\ PaginateIdle /\ RenderIdle /\ GenerateIdle /\ EstimateIdle
        /\ LoadIdle /\ WrapCodeIdle

SpecAdd == InitAdd /\ [][AddNext]_vars

InitLoad ==
    LoadInit /\ WrapIdle /\ PaginateIdle /\ RenderIdle /\ GenerateIdle /\ EstimateIdle
        /\ AddIdle /\ WrapCodeIdle

SpecLoad == InitLoad /\ [][LoadNext]_vars

InitEstimate ==
    EstimateInit /\ WrapIdle /\ PaginateIdle /\ RenderIdle /\ GenerateIdle /\ LoadIdle
        /\ AddIdle /\ WrapCodeIdle

SpecEstimate == InitEstimate /\ [][EstimateNext]_vars

InitPaginate ==
    PaginateInit /\ WrapIdle /\ RenderIdle /\ GenerateIdle /\ EstimateIdle /\ LoadIdle
        /\ AddIdle /\ WrapCodeIdle

SpecPaginate == InitPaginate /\ [][PaginateNext]_vars

InitWrap ==
    WrapInit /\ PaginateIdle /\ RenderIdle /\ GenerateIdle /\ EstimateIdle /\ LoadIdle
        /\ AddIdle /\ WrapCodeIdle

SpecWrap == InitWrap /\ [][WrapNext]_vars

InitRender ==
    RenderInit /\ WrapIdle /\ PaginateIdle /\ GenerateIdle /\ EstimateIdle /\ LoadIdle
        /\ AddIdle /\ WrapCodeIdle

SpecRender == InitRender /\ [][RenderNext]_vars

InitGenerate ==
    GenerateInit /\ WrapIdle /\ PaginateIdle /\ RenderIdle /\ EstimateIdle /\ LoadIdle
        /\ AddIdle /\ WrapCodeIdle

SpecGenerate == InitGenerate /\ [][GenerateNext]_vars

-----------------------------------------------------------------------------
(* Properties of render_with_overflow_detection                            *)

RECURSIVE FlatElements(_)
\* the element lists of the slides, one after the other
FlatElements(slides) ==
    IF slides = <<>> THEN <<>>
    ELSE Head(slides).elements \o FlatElements(Tail(slides))

\* (pageHeight - topMargin) minus the sum of (estimatedHeight + 10) over the
\* first k elements of the slide
RemainingAfter(k) ==
    SLIDE_H - DEFAULT_MARGIN_TOP
        - SumSeq([j \in 1..k |-> Estimate(p_elements[j], p_theme) + Pt(10)])

EveryPrefixFits ==
    \A k \in 1..Len(p_elements) : RemainingAfter(k) >= DEFAULT_MARGIN_BOTTOM

\* the estimated height of the element alone exceeds the full page
Oversized(e) == Estimate(e, p_theme) > SLIDE_H

\* C1: for a non-empty element sequence the method returns at least one
\* physical slide, no physical slide is empty, and the element lists of the
\* physical slides, concatenated in order, are the original sequence.
C1_ConcatenationIsInput ==
    (p_pc = "done" /\ p_elements # <<>>) =>
        /\ Len(p_result) >= 1
        /\ \A i \in 1..Len(p_result) : p_result[i].elements # <<>>
        /\ FlatElements(p_result) = p_elements

\* a slide has been split, and one of its physical slides holds several elements
C1_Witness ==
    /\ p_pc = "done"
    /\ Len(p_result) >= 2
    /\ \E i \in 1..Len(p_result) : Len(p_result[i].elements) >= 2

\* C2: if the running estimated height stays at or above the bottom margin
\* after every prefix of the elements, the method returns exactly one physical
\* slide, holding all the elements; a slide of one short BodyText gives exactly
\* one physical slide.
C2_NoSplitWhenFits ==
    p_pc = "done" =>
        /\ EveryPrefixFits =>
              /\ Len(p_result) = 1
              /\ p_result[1].elements = p_elements
        /\ p_elements = <<2>> => Len(p_result) = 1

\* several elements that fit together have been paginated
C2_Witness ==
    /\ p_pc = "done"
    /\ Len(p_elements) >= 3
    /\ \E k \in 1..Len(p_elements) : Estimate(p_elements[k], p_theme) > 0
    /\ EveryPrefixFits
    /\ Len(p_result) = 1

\* C3: an element whose estimated height alone exceeds the full page is on a
\* physical slide that holds no other element.
C3_OversizedAlone ==
    p_pc = "done" =>
        \A i \in 1..Len(p_result) :
            \A j \in 1..Len(p_result[i].elements) :
                Oversized(p_result[i].elements[j]) => Len(p_result[i].elements) = 1

\* an oversized element between a zero-height BackgroundImage and a short
\* element has been paginated
C3_Witness ==
    /\ p_pc = "done"
    /\ \E k \in 2..(Len(p_elements) - 1) :
          /\ Oversized(p_elements[k])
          /\ AllElems[p_elements[k - 1]].kind = "BackgroundImage"
          /\ ~Oversized(p_elements[k + 1])
    /\ Len(p_result) >= 3

RECURSIVE EstimatedSum(_)
\* the sum of estimated_height + 10 over the elements of one physical slide
EstimatedSum(elements) ==
    IF elements = <<>> THEN 0
    ELSE Estimate(Head(elements), p_theme) + Pt(10) + EstimatedSum(Tail(elements))

\* current_y after the elements of one physical slide
EstimatedY(elements) == SLIDE_H - DEFAULT_MARGIN_TOP - EstimatedSum(elements)

\* C25: after a pagination run every physical slide of two or more elements
\* fits by estimate, the top of the content area minus the sum of
\* estimated_height + 10 over its elements being at or above the bottom
\* margin, so that only a physical slide of one element may exceed the page;
\* and every physical slide after the first starts with an element that did
\* not fit on the slide before it.
C25_SeveralElementsFit ==
    p_pc = "done" =>
        /\ \A i \in 1..Len(p_result) :
              Len(p_result[i].elements) >= 2 =>
                  EstimatedY(p_result[i].elements) >= DEFAULT_MARGIN_BOTTOM
        /\ \A i \in 2..Len(p_result) :
              EstimatedY(p_result[i - 1].elements)
                  - Estimate(p_result[i].elements[1], p_theme) - Pt(10)
                      < DEFAULT_MARGIN_BOTTOM

\* a run has given a physical slide of one element that exceeds the page and,
\* after the first physical slide, one of several elements with a height
C25_Witness ==
    /\ p_pc = "done"
    /\ \E i \in 1..Len(p_result) :
          /\ Len(p_result[i].elements) = 1
          /\ EstimatedY(p_result[i].elements) < DEFAULT_MARGIN_BOTTOM
    /\ \E i \in 2..Len(p_result) :
          /\ Len(p_result[i].elements) >= 2
          /\ Estimate(p_result[i].elements[1], p_theme) > 0
          /\ Estimate(p_result[i].elements[2], p_theme) > 0

\* C4: when no split happened (one physical slide holding the whole input),
\* the returned list holds the Slide object the method was called on.
C4_NoSplitReturnsSelf ==
    (p_pc = "done" /\ Len(p_result) = 1 /\ p_result[1].elements = p_elements)
        => p_result[1].id = SelfId

-----------------------------------------------------------------------------
(* Properties of the render methods                                        *)

\* the height the i-th child of the root returns
ChildHeight(i) == render(r_root.elements[i], r_x, r_y, r_theme).height

\* y minus the sum of the heights of the children before the i-th
ChildY(i) == r_y - SumSeq([j \in 1..(i - 1) |-> ChildHeight(j)])

RECURSIVE ChildOps(_)
\* the canvas calls of the children from the i-th on, each drawn at its ChildY
ChildOps(i) ==
    IF i > Len(r_root.elements) THEN <<>>
    ELSE render(r_root.elements[i], r_x, ChildY(i), r_theme).ops \o ChildOps(i + 1)

\* every word of the text child fits the content width at the child's font,
\* so that the wrapped lines fit it too
EveryWordFits ==
    LET child == r_root.element
    IN  \A k \in 1..Len(SplitSpace(child.text)) :
            stringWidth(SplitSpace(child.text)[k], FontName(child.kind),
                        FontSize(child.kind, r_theme)) <= get_available_width

\* C6: the x at which Center and TitleSlide render a text child is at least
\* the left margin, and x plus the measured width is at most
\* pageWidth - rightMargin, whatever the length of the text.  (Stated for the
\* texts whose words each fit the content width: a single word wider than the
\* content area cannot meet both bounds at once.)
C6_CenteredWithinMargins ==
    (r_pc = "done" /\ r_root.kind \in {"Center", "TitleSlide"}
                   /\ r_root.element.kind \in TextKinds
                   /\ EveryWordFits) =>
        /\ r_child_x >= DEFAULT_MARGIN_LEFT
        /\ r_child_x + r_width <= SLIDE_W - DEFAULT_MARGIN_RIGHT

\* C7: for a text child, the width Center measures is the width of the longest
\* line of the wrapped text, as TitleSlide measures it, and Center renders the
\* child at the x TitleSlide computes for the same child and theme.  (Stated
\* for the texts that do not start with a space: wrap_text drops leading
\* spaces, which alone would make the two widths differ.)
C7_CenterMeasuresLongestLine ==
    (r_pc = "done" /\ r_root.kind = "Center" /\ r_root.element.kind \in TextKinds
                   /\ r_root.element.text # <<>>
                   /\ r_root.element.text[1] # " ") =>
        /\ r_width = TitleSlide_estimate_text_width(r_root.element, r_theme)
        /\ r_child_x = TitleSlide_x(r_root.element, r_theme)

\* C10: CombinedElement.render returns the sum of the heights its children
\* return, and renders them in list order, all at its own x, the i-th at y
\* minus the heights of the children before it, with no gap.
C10_CombinedHeightIsSum ==
    (r_pc = "done" /\ r_root.kind = "CombinedElement") =>
        /\ r_height = SumSeq([i \in 1..Len(r_root.elements) |-> ChildHeight(i)])
        /\ Len(r_calls) = Len(r_root.elements)
        /\ \A i \in 1..Len(r_calls) :
              /\ r_calls[i].element = r_root.elements[i]
              /\ r_calls[i].x = r_x
              /\ r_calls[i].y = ChildY(i)
        /\ r_ops = ChildOps(1)

\* a CombinedElement of several children of non-zero height has been rendered
C10_Witness ==
    /\ r_pc = "done"
    /\ r_root.kind = "CombinedElement"
    /\ Len(r_root.elements) >= 2
    /\ \A i \in 1..Len(r_root.elements) : ChildHeight(i) > 0
    /\ Len(r_calls) = Len(r_root.elements)

\* the largest member of a set of heights, 0 for the empty set
SetMax(S) == IF S = {} THEN 0 ELSE CHOOSE m \in S : \A h \in S : h <= m

\* C11: GridLayout.render with columns >= 1 renders exactly the first
\* min(n, columns) of its n children, in order and all at its own y, and
\* returns the maximum of the heights they return; the estimated height of
\* the GridLayout is the maximum of the estimates of the same children.
C11_GridFirstColumnsMax ==
    (r_pc = "done" /\ r_root.kind = "GridLayout" /\ r_root.columns >= 1) =>
        LET n == Min(Len(r_root.elements), r_root.columns)
        IN  /\ Len(r_calls) = n
            /\ \A i \in 1..n : /\ r_calls[i].element = r_root.elements[i]
                                /\ r_calls[i].y = r_y
            /\ r_height = SetMax({ChildHeight(i) : i \in 1..n})
            /\ _estimate_element_height(r_root, r_theme)
                  = SetMax({_estimate_element_height(r_root.elements[i], r_theme) :
                               i \in 1..n})

\* a GridLayout of two columns and three children has been rendered; the two
\* rendered children differ in height and the third is taller than both
C11_Witness ==
    /\ r_pc = "done"
    /\ r_root.kind = "GridLayout"
    /\ r_root.columns = 2
    /\ Len(r_root.elements) = 3
    /\ ChildHeight(1) > 0
    /\ ChildHeight(2) > ChildHeight(1)
    /\ ChildHeight(3) > ChildHeight(2)
    /\ r_height = ChildHeight(2)

\* C12: for a path with no file Img.render draws the placeholder
\* "[Image not found: <path>]" at (x, y) and returns 30 without a caption and
\* 60 with one; the call returns.
C12_MissingImagePlaceholder ==
    (r_pc = "done" /\ r_root.kind = "Img" /\ FileState(r_root.path) = "missing") =>
        /\ r_ops # <<>>
        /\ r_ops[1] = [op |-> "drawString", x |-> r_x, y |-> r_y,
                       text |-> <<"[Image not found: ", r_root.path, "]">>]
        /\ r_height = IF r_root.caption = <<>> THEN Pt(30) ELSE Pt(60)

\* an Img with a caption and a path with no file has been rendered
C12_Witness ==
    /\ r_pc = "done"
    /\ r_root.kind = "Img"
    /\ FileState(r_root.path) = "missing"
    /\ r_root.caption # <<>>
    /\ r_height = Pt(60)

\* C13: for a file that exists and fails to load Img.render draws the
\* placeholder "[Error loading image: <message>]" and returns the height of
\* the missing-file case: 30 without a caption and 60 with one.
C13_LoadFailureLikeMissing ==
    (r_pc = "done" /\ r_root.kind = "Img" /\ FileState(r_root.path) = "broken") =>
        /\ r_ops # <<>>
        /\ r_ops[1].text[1] = "[Error loading image: "
        /\ r_height = IF r_root.caption = <<>> THEN Pt(30) ELSE Pt(60)

\* the index set of the lines of the code that are not blank
CodeLinesNotBlank(code) ==
    {i \in 1..Len(SplitLines(code)) : NotBlank(SplitLines(code)[i])}

\* the number of lines from the first to the last line that is not blank
CodeLineCount(code) ==
    LET nb == CodeLinesNotBlank(code)
    IN  IF nb = {} THEN 0
        ELSE (CHOOSE l \in nb : \A i \in nb : i <= l)
                 - (CHOOSE f \in nb : \A i \in nb : f <= i) + 1

\* lineCount * (fontSize + 2) + 2 * 10 + 10 at the font size of code
CodeHeight(lineCount, theme) ==
    lineCount * (theme.font_size * 16 + Pt(2)) + 2 * Pt(10) + Pt(10)

\* C14, as claimed: the height Code.render returns counts the lines from the
\* first to the last line that is not blank, and for the code
\* "  x = 1\n\n  y = 2" that line count is 2.
C14_ExampleCountsTwo ==
    (r_pc = "done" /\ r_root.kind = "Code") =>
        /\ r_height = CodeHeight(CodeLineCount(r_root.code), r_theme)
        /\ r_root.code = CodeExample => r_height = CodeHeight(2, r_theme)

\* C14, amended: the height Code.render returns counts the lines from the
\* first to the last line that is not blank, the blank lines between them
\* included, and for the code "  x = 1\n\n  y = 2" that line count is 3: the
\* two lines of code and the blank line between them.
C14_InteriorBlankCounted ==
    (r_pc = "done" /\ r_root.kind = "Code") =>
        /\ r_height = CodeHeight(CodeLineCount(r_root.code), r_theme)
        /\ r_root.code = CodeExample => r_height = CodeHeight(3, r_theme)

\* the code "  x = 1\n\n  y = 2" has been rendered, both of its lines of
\* code drawn two line heights apart
C14_Witness ==
    /\ r_pc = "done"
    /\ r_root.kind = "Code"
    /\ r_root.code = CodeExample
    /\ \E i, j \in 1..Len(r_ops) :
          /\ r_ops[i].op = "drawString" /\ r_ops[i].text = <<"x">>
          /\ r_ops[j].op = "drawString" /\ r_ops[j].text = <<"y">>
          /\ r_ops[i].y - r_ops[j].y = 2 * (r_theme.font_size * 16 + Pt(2))

\* C19: for a Code element whose language has no keyword table (known to
\* pygments or not) every drawString of the render is in the default colour:
\* nothing is drawn in the comment, string, number or keyword colour.
C19_UnknownLanguagePlain ==
    (r_pc = "done" /\ r_root.kind = "Code" /\ r_root.language \in {"ruby", "klingon"}) =>
        \A i \in 1..Len(r_ops) :
            r_ops[i].op = "drawString" => r_ops[i].color = "default"

-----------------------------------------------------------------------------
(* Properties of the height estimate                                       *)

\* ceil(a / b) for a >= 0 and b > 0
Ceiling(a, b) == (a + b - 1) \div b

\* C15: for a text element the line count of the estimate is
\* ceil(charCount * fontSize / maxWidth), whatever the length of the text
\* (0 and the exact multiples of maxWidth included), and the estimate is
\* lineCount * (fontSize + lineGap) + trailingGap.  (Stated under the default
\* theme: with a font size of 0 every product is a multiple of maxWidth.)
C15_EstimateIsCeiling ==
    (e_pc # "call" /\ e_element.kind \in TextKinds /\ e_theme = DefaultTheme) =>
        LET font_size == FontSize(e_element.kind, e_theme)
            lineCount == Ceiling(Len(e_element.text) * font_size, get_available_width)
        IN  e_estimate = lineCount * (font_size + LineGap(e_element.kind))
                             + TrailingGap(e_element.kind)

\* the lines Code.render draws for the code, the segments of a wrapped line
\* counted one by one
CodeDrawnLines(element, theme) ==
    drawn_lines(trim_blank_lines(SplitLines(highlighted_code(element))), "Courier",
                theme.font_size * 16, get_available_width - Pt(20))

\* C26: the height Code.render returns covers every line it draws: with D the
\* number of lines drawn, the segments of wrapped lines included, the height
\* is D * (fontSize + 2) + 2 * 10 + 10.
C26_HeightCoversDrawnLines ==
    (r_pc = "done" /\ r_root.kind = "Code") =>
        r_height = CodeHeight(Len(CodeDrawnLines(r_root, r_theme)), r_theme)

\* no line of the code is wider than the code width, so that none is wrapped
CodeLinesFit(element, theme) ==
    \A i \in 1..Len(SplitLines(element.code)) :
        stringWidth(SplitLines(element.code)[i], "Courier", theme.font_size * 16)
            <= get_available_width - Pt(20)

\* C16: for a Code element none of whose lines is wrapped, the estimated
\* height is the height Code.render returns.  (Stated under the default theme.)
C16_CodeEstimateIsRendered ==
    (e_pc = "done" /\ e_element.kind = "Code" /\ e_theme = DefaultTheme
                   /\ CodeLinesFit(e_element, e_theme)) =>
        e_estimate = e_height

\* C20: the render of an element of any class returns a height that is not
\* negative, for every theme whose font sizes are not negative; the render of
\* a BackgroundImage returns 0 whether the image loads, is missing or fails
\* to load, makes the one drawImage call over the whole page in the first
\* case and no canvas call in the other two, and its estimated height is 0.
C20_HeightsNotNegative ==
    e_pc = "done" =>
        /\ e_height >= 0
        /\ e_element.kind = "BackgroundImage" =>
              /\ e_height = 0
              /\ e_estimate = 0
              /\ e_ops = IF FileState(e_element.path) = "image"
                         THEN <<[op |-> "drawImage", x |-> 0, y |-> 0,
                                 w |-> SLIDE_W, h |-> SLIDE_H]>>
                         ELSE <<>>

\* a BackgroundImage whose file does not decode has been estimated and
\* rendered under the theme of font size 0
C20_Witness ==
    /\ e_pc = "done"
    /\ e_element.kind = "BackgroundImage"
    /\ FileState(e_element.path) = "broken"
    /\ e_theme = ZeroTheme
    /\ e_ops = <<>>

-----------------------------------------------------------------------------
(* Properties of generate                                                  *)

\* generate has finished the deck of the end-to-end scenario
ScenarioDone == g_pc = "done" /\ g_slides = DeckSlides(ScenarioSlides)

ExpectedPage(elements) ==
    <<[op |-> "rect", element |-> 0]>>
        \o [i \in 1..Len(elements) |-> [op |-> "render", element |-> elements[i]]]
        \o <<[op |-> "showPage", element |-> 0]>>

RECURSIVE ExpectedPages(_)
\* the pages of a list of physical slides, in order
ExpectedPages(slides) ==
    IF slides = <<>> THEN <<>>
    ELSE ExpectedPage(Head(slides).elements) \o ExpectedPages(Tail(slides))

RECURSIVE ExpectedDeck(_)
\* the pages of a list of logical slides: those of the physical slides of the
\* first, in pagination order, then those of the others
ExpectedDeck(slides) ==
    IF slides = <<>> THEN <<>>
    ELSE ExpectedPages(render_with_overflow_detection(Head(slides), g_theme, 1))
             \o ExpectedDeck(Tail(slides))

\* the number of canvas calls of generate that are op
CanvasCount(op) == Cardinality({i \in 1..Len(g_canvas) : g_canvas[i].op = op})

\* the height the element rendered by the i-th call returned
RenderedHeight(i) ==
    render(AllElems[g_canvas[i].element], DEFAULT_MARGIN_LEFT, g_canvas[i].y,
           g_theme).height

\* C17: generate takes the logical slides in the given order and their
\* physical slides in pagination order; for each physical slide the canvas
\* sees the background rectangle, then the slide's elements rendered in list
\* order, the first at pageHeight - topMargin and each next one lower by the
\* rendered height of the one before plus 10, then one showPage; save is
\* called once, after the last page, and the reported count is the number of
\* pages, the sum of the physical-slide counts of the logical slides.
C17_PagesInOrder ==
    g_pc = "done" =>
        /\ [i \in 1..Len(g_canvas) |->
               [op |-> g_canvas[i].op, element |-> g_canvas[i].element]]
             = Append(ExpectedDeck(g_slides), [op |-> "save", element |-> 0])
        /\ \A i \in 1..Len(g_canvas) :
              g_canvas[i].op = "render" =>
                  g_canvas[i].y =
                      IF g_canvas[i - 1].op = "rect" THEN SLIDE_H - DEFAULT_MARGIN_TOP
                      ELSE g_canvas[i - 1].y - (RenderedHeight(i - 1) + Pt(10))
        /\ CanvasCount("save") = 1
        /\ Len(g_counts) = Len(g_slides)
        /\ g_total = CanvasCount("showPage")
        /\ g_total = SumSeq(g_counts)

\* a deck has been generated in which a logical slide was split, and a page
\* holds an element of non-zero height followed by another
C17_Witness ==
    /\ g_pc = "done"
    /\ Len(g_slides) >= 2
    /\ \E k \in 1..Len(g_counts) : g_counts[k] >= 2
    /\ \E i \in 2..Len(g_canvas) :
          /\ g_canvas[i].op = "render"
          /\ g_canvas[i - 1].op = "render"
          /\ g_canvas[i].y < g_canvas[i - 1].y - Pt(10)

-----------------------------------------------------------------------------
(* Properties of generate_pdf                                              *)

\* the entry has no file, or its file does not give a slide
FailsToLoad(path) ==
    \/ SlideFile(path).state \in {"missing", "raises"}
    \/ SlideFile(path).type \in {"none", "int"}

\* C18: every entry of the slide order gives one logical slide, at the
\* position of the entry: an entry with no file, or whose file fails to load,
\* gives a Slide of a single BodyText that carries a message and the path,
\* the entries after it are still loaded (a list of elements and a single
\* element as the elements of their slide), and the generator is called with
\* as many slides as there are entries.
C18_OneSlidePerEntry ==
    l_pc = "done" =>
        /\ Len(l_handed) = Len(l_files)
        /\ l_files # <<>> => l_called
        /\ \A i \in 1..Len(l_handed) :
              IF FailsToLoad(l_files[i])
              THEN /\ Len(l_handed[i].elements) = 1
                   /\ l_handed[i].elements[1].kind = "BodyText"
                   /\ l_handed[i].elements[1].text[2] = l_files[i]
              ELSE /\ SlideFile(l_files[i]).type = "list" =>
                         l_handed[i].elements = SlideFile(l_files[i]).value
                   /\ SlideFile(l_files[i]).type = "element" =>
                         l_handed[i].elements = <<SlideFile(l_files[i]).value>>

\* a slide order has been loaded in which an entry with no file and an entry
\* whose file raises are each followed by a file that loads
C18_Witness ==
    /\ l_pc = "done"
    /\ l_called
    /\ Len(l_files) >= 3
    /\ \E i \in 1..(Len(l_files) - 1) :
          SlideFile(l_files[i]).state = "missing" /\ ~FailsToLoad(l_files[i + 1])
    /\ \E i \in 1..Len(l_files) : SlideFile(l_files[i]).state = "raises"
    /\ Len(l_handed) = Len(l_files)

\* C24: a source whose slide variable is a Slide gives that Slide: the slide
\* handed to the generator has the elements the source wrote, each of them an
\* element, and not the Slide itself as its single element.
C24_SlideSourceKeepsElements ==
    l_pc = "done" =>
        \A i \in 1..Len(l_handed) :
            (SlideFile(l_files[i]).state = "loads" /\ SlideFile(l_files[i]).type = "Slide")
                => /\ l_handed[i].elements = SlideFile(l_files[i]).value.elements
                   /\ \A k \in 1..Len(l_handed[i].elements) :
                          "kind" \in DOMAIN l_handed[i].elements[k]

-----------------------------------------------------------------------------
(* Properties of wrap_text                                                 *)

WrapWidth(t) == stringWidth(t, "Helvetica", w_size)

WrapIsWide(t) == WrapWidth(t) > w_maxw

\* C8: text that is not empty and whose measured width is at most max_width
\* comes back from wrap_text as exactly one line, equal to the text.  (The
\* empty string, for which wrap_text returns no line at all, is left aside:
\* the statement already fails on text with content.)
C8_FittingTextIsOneLine ==
    (w_pc = "done" /\ w_text # <<>> /\ WrapWidth(w_text) <= w_maxw)
        => w_lines = <<w_text>>

-----------------------------------------------------------------------------
(* Properties of the + operator                                            *)

\* at least one + of the expression has been evaluated: a_left, a_right and
\* a_acc are its operands and its value
Plussed == a_operands # <<>> /\ a_pc # "call" /\ Len(a_todo) <= Len(a_operands) - 2

\* C21: for a Head1, Head2, Head3, BodyText or Bold element, element + string
\* is an element of the same class whose text is the old text followed by the
\* string and whose colour is the old colour, and is not a CombinedElement;
\* element + element is a CombinedElement of the two operands in order; and
\* CombinedElement + element is the CombinedElement with the element appended
\* as its last child.
C21_AddExtendsTextOrCombines ==
    Plussed =>
        /\ (a_left.kind \in TextKinds /\ a_right.kind = "str") =>
               /\ a_acc.kind = a_left.kind
               /\ a_acc.text = a_left.text \o a_right.text
               /\ a_acc.color = a_left.color
        /\ (IsBaseElement(a_left) /\ a_left.kind # "CombinedElement"
                /\ IsBaseElement(a_right)) =>
               /\ a_acc.kind = "CombinedElement"
               /\ a_acc.elements = <<a_left, a_right>>
        /\ (a_left.kind = "CombinedElement" /\ IsBaseElement(a_right)) =>
               /\ a_acc.kind = "CombinedElement"
               /\ a_acc.elements = a_left.elements \o <<a_right>>

\* a coloured text element, plus a string, plus an element, plus an element:
\* the text was extended, then combined, then the combination was appended to
C21_Witness ==
    /\ a_pc = "done"
    /\ Len(a_operands) = 3
    /\ a_operands[1].kind \in TextKinds
    /\ a_operands[1].color # "None"
    /\ a_operands[2].kind = "str"
    /\ IsBaseElement(a_operands[3])
    /\ a_acc.kind = "CombinedElement"
    /\ a_acc.elements[1].kind = a_operands[1].kind
    /\ a_acc.elements[1].text = a_operands[1].text \o a_operands[2].text
    /\ a_acc.elements[1].color = a_operands[1].color
    /\ a_acc.elements[2] = a_operands[3]

\* C27: string + Bold is an element that keeps the bold class and the colour
\* of the Bold operand, not a plain string.
C27_StringPlusBoldIsBold ==
    (Plussed /\ a_left.kind = "str" /\ a_right.kind = "Bold") =>
        /\ a_acc.kind = "Bold"
        /\ a_acc.color = a_right.color

-----------------------------------------------------------------------------
(* Properties of Code._wrap_code_line                                      *)

\* the iterations of one run stop at MaxSegments only when the loop repeats
\* itself: the last two segments are the same blank indentation and
\* remaining_line did not change
WrapCodeStuck ==
    /\ c_pc = "loop"
    /\ Len(c_wrapped) >= 2
    /\ c_wrapped[Len(c_wrapped)] = c_wrapped[Len(c_wrapped) - 1]
    /\ IsBlank(c_wrapped[Len(c_wrapped)])
    /\ wrap_code_step(c_wrapped, c_remaining, c_leading, "Courier", c_size,
                      c_maxw).remaining_line = c_remaining

WrapCodeCapOnlyWhenStuck ==
    (c_pc = "loop" /\ Len(c_wrapped) = MaxSegments) => WrapCodeStuck

\* C22: _wrap_code_line returns for every line and every max_width, also when
\* the indentation, or the indentation and the four spaces of a continuation
\* line, followed by one character is wider than max_width.
C22_WrapCodeLineReturns == <>(c_pc = "done")

RECURSIVE Concat(_)
Concat(segments) ==
    IF segments = <<>> THEN <<>> ELSE Head(segments) \o Concat(Tail(segments))

NotWhitespace(c) == c \notin Whitespace

\* C23: when _wrap_code_line returns, the characters of the returned segments
\* that are not whitespace, in order, are those of the line: no character of
\* the code is dropped, repeated or moved, also when the first character that
\* does not fit is a comma, a semicolon or a bracket.
C23_WrapCodeKeepsCharacters ==
    (c_pc = "done" /\ c_line # <<>>) =>
        SelectSeq(Concat(c_wrapped), NotWhitespace) = SelectSeq(c_line, NotWhitespace)

=============================================================================
